---------------------------- MODULE Spec2Model ----------------------------
(***************************************************************************)
(* Model of the KSTAR natural-language command pipeline:                   *)
(*   - CommandParser (src/src/llm/command_parser.py)                       *)
(*   - CommandExecutionEngine (src/src/core/execution_engine.py)           *)
(*                                                                         *)
(* Numbers are fixed-point with one decimal digit: the integer v stands    *)
(* for the Python float v/10 (12 keV is 120, 5.0 s is 50).  An optional    *)
(* value (Optional[...]) is a sequence: <<>> is None, <<v>> is v.          *)
(* A command text is a sequence of tokens; the regular expressions of the  *)
(* parser are matched on tokens.                                           *)
(***************************************************************************)
EXTENDS Integers, Sequences, FiniteSets, TLC

None == <<>>
Some(v) == <<v>>
\* A faulty variant of min(value, limit), which forgets the limit;
\* C16_QuickOperationsAreClamped must reject it.
MinWithoutLimit(a, b) == a
Min(a, b) == IF a < b THEN a ELSE b
Max(a, b) == IF a > b THEN a ELSE b

\* Temperatures of the demo UI are counted in units of 0.0001 keV; the
\* argument is in tenths of a keV, as the parser's targets are.
Kev(tenths) == tenths * 1000

(***************************************************************************)
(* State                                                                   *)
(***************************************************************************)
VARIABLES
    demo_mode,          \* CommandParser.demo_mode
    now,                \* int(time.time())
    executions,         \* the CommandExecution objects, in creation order
    active_executions,  \* engine.active_executions: execution id -> object
    task,               \* per object: where its execute_command call stands
    controller_calls,   \* objects whose command was passed to
                        \* controller.execute_parsed_command
    calls,              \* direct calls of the parser's strategies, of
                        \* parse_command and of _perform_safety_checks with
                        \* what they returned: an earlier call, kept for
                        \* comparison, and the latest one
    demo_values,        \* DemoModeUI.demo_values: the simulated PVs
    continuous_monitoring,  \* DemoModeUI.continuous_monitoring
    updates             \* calls of _update_demo_monitoring so far: the clock
                        \* that stamps the records of the demo UI

vars == <<demo_mode, now, executions, active_executions, task, controller_calls,
          calls, demo_values, continuous_monitoring, updates>>

\* the state of the demo UI, and the state of the engine and of the parser
ui == <<demo_values, continuous_monitoring, updates>>
core == <<demo_mode, now, executions, active_executions, task,
          controller_calls, calls>>

(***************************************************************************)
(* Command texts.                                                          *)
(***************************************************************************)
\* A word token and a number token ip[.fp]; fp = -1 when there is no
\* fractional part.
W(w) == [k |-> w, ip |-> 0, fp |-> -1]
N(ip, fp) == [k |-> "num", ip |-> ip, fp |-> fp]

\* float(text of the number token), in tenths
NumValue(tok) == tok.ip * 10 + (IF tok.fp < 0 THEN 0 ELSE tok.fp)

\* str.lower() on a token: of the words used, "keV" and "Set" have
\* upper-case letters
Lower(tok) == IF tok.k = "keV" THEN W("kev")
              ELSE IF tok.k = "Set" THEN W("set") ELSE tok
LowerText(text) == [i \in 1..Len(text) |-> Lower(text[i])]

IsNum(tok) == tok.k = "num"

(***************************************************************************)
(* _demo_parse_command                                                     *)
(***************************************************************************)
DemoKeyword == {"temperature", "temp", "ondo", "ondoreul"}  \* temperature|temp|온도
DemoUnit == {"keV", "kev", "do", "dossi"}          \* keV|kev|도 (도씨 starts with 도)
DemoToWord == {"to", "ollyeo", "natchwo", "seoljeong"}  \* to|올려|낮춰|설정

\* positions i of a number directly followed by a unit: (\d+(?:\.\d+)?)\s*(?:keV|kev|도)
NumUnitAt(text, i) ==
    /\ i \in 1..Len(text) /\ IsNum(text[i])
    /\ i + 1 <= Len(text) /\ text[i + 1].k \in DemoUnit

SetMin(S) == CHOOSE x \in S : \A y \in S : x <= y

\* re.findall(pattern, text)[0] for each of the four temp_patterns, as the
\* position of the captured number (0: no match)
DemoPattern1(text) ==
    LET kws == {i \in 1..Len(text) : text[i].k \in DemoKeyword}
        hits == {j \in 1..Len(text) : NumUnitAt(text, j) /\ \E i \in kws : i < j}
    IN IF hits = {} THEN 0 ELSE SetMin(hits)

DemoPattern2(text) ==
    LET hits == {j \in 1..Len(text) : NumUnitAt(text, j)}
    IN IF hits = {} THEN 0 ELSE SetMin(hits)

DemoPattern3(text) ==
    LET kws == {i \in 1..Len(text) : text[i].k \in DemoToWord}
        hits == {j \in 1..Len(text) : IsNum(text[j]) /\ \E i \in kws : i < j}
    IN IF hits = {} THEN 0 ELSE SetMin(hits)

DemoPattern4(text) ==
    LET hits == {j \in 1..Len(text) : IsNum(text[j])}
    IN IF hits = {} THEN 0 ELSE SetMin(hits)

\* the loop over temp_patterns: the first pattern with a match decides
DemoExtract(text) ==
    LET low == LowerText(text)
        p1 == DemoPattern1(low)
        p2 == DemoPattern2(low)
        p3 == DemoPattern3(low)
        p4 == DemoPattern4(low)
        pos == IF p1 # 0 THEN p1 ELSE IF p2 # 0 THEN p2 ELSE IF p3 # 0 THEN p3 ELSE p4
    IN IF pos = 0 THEN None ELSE Some(NumValue(low[pos]))

\* A faulty variant of the default, which reuses the target of the demo
\* call made just before instead of 10.0; C15_RuleBasedParsingIsDeterministic
\* must reject it.
DemoTargetSticky(text) ==
    LET m == DemoExtract(text)
    IN IF m = None \/ m = Some(0)
       THEN IF calls # << >> /\ calls[Len(calls)].fn = "_demo_parse_command"
            THEN calls[Len(calls)].outcome.value[1].target_value[1]
            ELSE 100
       ELSE m[1]

\* "if not target_temp: target_temp = 10.0": None and 0.0 are both falsy
DemoTarget(text) ==
    LET m == DemoExtract(text)
    IN IF m = None \/ m = Some(0) THEN 100 ELSE m[1]

ControlCommand(pv, value, unit, descr) ==
    [pv_name |-> pv, value |-> value, unit |-> unit, description |-> descr,
     priority |-> 1]

\* A faulty variant of the demo strategy, which clamps the coil current at
\* 2000 A as the quick patterns do; C13_DemoOperations must reject it.
DemoParseCommandClamped(command) ==
    LET target_temp == DemoTarget(command)
        temp_diff == target_temp - 80
    IN [original_command |-> command,
        intent |-> "temperature_control",
        target_value |-> Some(target_temp),
        duration |-> Some(50),
        control_commands |->
            << ControlCommand("KSTAR:COIL:CURR",
                              Min(12000 + temp_diff * 100, 20000), "A",
                              <<"coil current for", target_temp>>),
               ControlCommand("KSTAR:HEATER:POW", 500 + temp_diff * 5, "%",
                              <<"heater power for", target_temp>>) >>,
        safety_checks |-> <<"demo_mode_safety_check">>,
        estimated_time |-> 50]

DemoParseCommand(command) ==
    LET target_temp == DemoTarget(command)
        temp_diff == target_temp - 80
        coil_current == 12000 + temp_diff * 100
        heater_power == 500 + temp_diff * 5
    IN [original_command |-> command,
        intent |-> "temperature_control",
        target_value |-> Some(target_temp),
        duration |-> Some(50),
        control_commands |->
            << ControlCommand("KSTAR:COIL:CURR", coil_current, "A",
                              <<"coil current for", target_temp>>),
               ControlCommand("KSTAR:HEATER:POW", heater_power, "%",
                              <<"heater power for", target_temp>>) >>,
        safety_checks |-> <<"demo_mode_safety_check">>,
        estimated_time |-> 50]

(***************************************************************************)
(* _quick_parse, _extract_duration, _generate_temperature_commands         *)
(***************************************************************************)
QuickAnchor == {"ondo", "ondoreul"}                \* 온도를?
QuickUnit == {"keV", "do", "dossi"}                \* (?:keV|도|도씨)?
QuickParticle == {"ro", "euro"}                    \* (?:로|으로)?
\* the closing verbs of the four temp_patterns, in list order
QuickVerbs ==
    << {"ollyeo", "nopyeo", "jeungga"},            \* 올려|높여|증가
       {"naeryeo", "natchwo", "gamso"},            \* 내려|낮춰|감소
       {"seoljeong", "jojeol"},                    \* 설정|조절
       {"yuji"} >>                                 \* 유지

\* the pattern with closing verbs `verbs` matches with 온도 at position i
QuickMatchAt(text, i, verbs) ==
    /\ i \in 1..Len(text) /\ text[i].k \in QuickAnchor
    /\ i + 1 <= Len(text) /\ IsNum(text[i + 1])
    /\ LET j1 == i + 2
           j2 == IF j1 <= Len(text) /\ text[j1].k \in QuickUnit THEN j1 + 1 ELSE j1
           j3 == IF j2 <= Len(text) /\ text[j2].k \in QuickParticle THEN j2 + 1 ELSE j2
       IN j3 <= Len(text) /\ text[j3].k \in verbs

\* re.search(pattern, command): position of the leftmost match (0: none)
QuickSearch(text, verbs) ==
    LET hits == {i \in 1..Len(text) : QuickMatchAt(text, i, verbs)}
    IN IF hits = {} THEN 0 ELSE SetMin(hits)

\* the digits (\d+) captured right before a duration unit: the last run of
\* digits of the number token
LastDigits(tok) == IF tok.fp < 0 THEN tok.ip ELSE tok.fp

DurationTail == {"dongan", "gan"}                  \* (?:동안|간)
\* duration_patterns in list order: unit word and the factor applied
DurationUnits == << [unit |-> "cho", factor |-> 1],       \* 초
                    [unit |-> "bun", factor |-> 60],      \* 분
                    [unit |-> "sigan", factor |-> 3600] >>  \* 시간

DurationSearch(text, unit) ==
    LET hits == {i \in 1..Len(text) :
                    /\ IsNum(text[i])
                    /\ i + 2 <= Len(text)
                    /\ text[i + 1].k = unit
                    /\ text[i + 2].k \in DurationTail}
    IN IF hits = {} THEN 0 ELSE SetMin(hits)

\* A faulty variant of _extract_duration, which returns the number as
\* written, whatever the unit; C17_QuickDuration must reject it.
ExtractDurationUnscaled(text) ==
    LET pos(n) == DurationSearch(text, DurationUnits[n].unit)
        val(n) == LastDigits(text[pos(n)]) * 10
    IN IF pos(1) # 0 THEN Some(val(1))
       ELSE IF pos(2) # 0 THEN Some(val(2))
       ELSE IF pos(3) # 0 THEN Some(val(3))
       ELSE None

ExtractDuration(text) ==
    LET pos(n) == DurationSearch(text, DurationUnits[n].unit)
        val(n) == LastDigits(text[pos(n)]) * 10 * DurationUnits[n].factor
    IN IF pos(1) # 0 THEN Some(val(1))
       ELSE IF pos(2) # 0 THEN Some(val(2))
       ELSE IF pos(3) # 0 THEN Some(val(3))
       ELSE None

GenerateTemperatureCommands(target_temp) ==
    LET current_temp == 80
    IN IF target_temp > current_temp THEN
           LET temp_diff == target_temp - current_temp
           IN << ControlCommand("KSTAR:COIL:CURR",
                                Min(15000 + temp_diff * 100, 20000), "A",
                                <<"coil current for", target_temp>>),
                 ControlCommand("KSTAR:HEATER:POW",
                                Min(700 + temp_diff * 5, 1000), "%",
                                <<"heater power for", target_temp>>) >>
       ELSE IF target_temp < current_temp THEN
           LET temp_diff == current_temp - target_temp
           IN << ControlCommand("KSTAR:COIL:CURR",
                                Max(10000 - temp_diff * 50, 5000), "A",
                                <<"coil current reduction for", target_temp>>),
                 ControlCommand("KSTAR:HEATER:POW",
                                Max(300 - temp_diff * 3, 100), "%",
                                <<"heater power reduction for", target_temp>>) >>
       ELSE << >>

\* None when no pattern matches, else Some(ParsedCommand)
QuickParse(command) ==
    LET p(n) == QuickSearch(command, QuickVerbs[n])
        pos == IF p(1) # 0 THEN p(1) ELSE IF p(2) # 0 THEN p(2)
               ELSE IF p(3) # 0 THEN p(3) ELSE p(4)
    IN IF pos = 0 THEN None
       ELSE LET target_temp == NumValue(command[pos + 1])
                duration == ExtractDuration(command)
            IN Some([original_command |-> command,
                     intent |-> "temperature_control",
                     target_value |-> Some(target_temp),
                     duration |-> duration,
                     control_commands |-> GenerateTemperatureCommands(target_temp),
                     safety_checks |-> <<"temperature_range", "heating_power_limit">>,
                     \* "duration or 10.0": None and 0.0 are falsy
                     estimated_time |-> IF duration = None \/ duration = Some(0)
                                        THEN 100 ELSE duration[1]])

(***************************************************************************)
(* _llm_parse, _create_fallback_command                                    *)
(***************************************************************************)
\* The result of a call: it raised `error`, or returned value[1]; strategies
\* lists the parsing strategies the call ran, in the order it ran them.
Raised(err) == [raised |-> TRUE, error |-> err, value |-> None, strategies |-> << >>]
Returned(v) == [raised |-> FALSE, error |-> "", value |-> Some(v), strategies |-> << >>]
Via(strategy, r) == [r EXCEPT !.strategies = <<strategy>> \o @]

CreateFallbackCommand(command) ==
    [original_command |-> command,
     intent |-> "unknown",
     target_value |-> None,
     duration |-> None,
     control_commands |-> << >>,
     safety_checks |-> <<"manual_review">>,
     estimated_time |-> 50]

\* One entry of the "control_commands" array of the service's JSON answer;
\* keys is the set of keys the entry has.
LLMOp(keys, pv, value) ==
    [keys |-> keys, pv_name |-> pv, value |-> value, unit |-> "u",
     description |-> <<"llm", 0>>, priority |-> 2]

OpKeys == {"pv_name", "value", "unit", "description", "priority"}

\* An answer of the semantic-model service.  kind: "service_error" (the call
\* raises), "invalid_json" (json.loads raises) or "json" (a JSON object with
\* the keys in `keys`).
LLMAnswer(kind, keys, intent, target, duration, ops) ==
    [kind |-> kind, keys |-> keys, intent |-> intent, target_value |-> target,
     duration |-> duration, control_commands |-> ops,
     safety_checks |-> <<"llm_check">>, estimated_time |-> 30]

AllKeys == {"intent", "target_value", "duration", "control_commands",
            "safety_checks", "estimated_time"}

\* cmd["pv_name"], cmd["value"], cmd["unit"], cmd["description"] raise
\* KeyError on a missing key; cmd.get("priority", 1) does not
OpWellFormed(op) == {"pv_name", "value", "unit", "description"} \subseteq op.keys

LLMControlCommand(op) ==
    [pv_name |-> op.pv_name, value |-> op.value, unit |-> op.unit,
     description |-> op.description,
     priority |-> IF "priority" \in op.keys THEN op.priority ELSE 1]

\* the body of the try block: TRUE when some statement of it raises
LLMTryRaises(answer) ==
    \/ answer.kind = "service_error"
    \/ answer.kind = "invalid_json"
    \/ "control_commands" \notin answer.keys
    \/ \E i \in 1..Len(answer.control_commands) :
           ~OpWellFormed(answer.control_commands[i])
    \/ "intent" \notin answer.keys

\* A faulty variant of the except clause, which lets the error escape;
\* C10_ParseNeverRaisesAndFallsBack must reject it.
LLMExceptReraising(command) == Raised("LLMError")

\* except Exception: return self._create_fallback_command(command)
LLMExcept(command) == Returned(CreateFallbackCommand(command))

LLMParse(command, answer) ==
    IF LLMTryRaises(answer)
    THEN LLMExcept(command)
    ELSE Returned(
            [original_command |-> command,
             intent |-> answer.intent,
             target_value |-> IF "target_value" \in answer.keys
                              THEN answer.target_value ELSE None,
             duration |-> IF "duration" \in answer.keys
                          THEN answer.duration ELSE None,
             control_commands |->
                 [i \in 1..Len(answer.control_commands) |->
                      LLMControlCommand(answer.control_commands[i])],
             safety_checks |-> IF "safety_checks" \in answer.keys
                               THEN answer.safety_checks ELSE << >>,
             estimated_time |-> IF "estimated_time" \in answer.keys
                                THEN answer.estimated_time ELSE 100])

(***************************************************************************)
(* parse_command                                                           *)
(***************************************************************************)
\* an argument that is not a str (None): command.lower() and re.search raise
NotAString == << W("NoneType") >>

\* A faulty variant of parse_command, which goes to the semantic model
\* without trying the quick patterns; C11_StrategyOrder must reject it.
ParseCommandSkippingQuick(demo, command, answer) ==
    IF demo
    THEN Via("demo", Returned(DemoParseCommand(command)))
    ELSE Via("llm", LLMParse(command, answer))

ParseCommand(demo, command, answer) ==
    IF demo
    THEN Via("demo", IF command = NotAString
                     THEN Raised("AttributeError")
                     ELSE Returned(DemoParseCommand(command)))
    ELSE IF command = NotAString
         THEN Via("quick", Raised("TypeError"))
         ELSE LET quick_parse == QuickParse(command)
              IN IF quick_parse # None
                 THEN Via("quick", Returned(quick_parse[1]))
                 ELSE Via("quick", Via("llm", LLMParse(command, answer)))

(***************************************************************************)
(* Bounds of the model and the inputs explored.                            *)
(***************************************************************************)
MaxExecutions == 1      \* execute_command calls explored
MaxSamples == 2         \* monitoring samples explored per execution

\* command texts submitted to the engine
EngineCommands ==
    { << W("temperature"), N(20, -1), W("kev") >>,   \* demo mode: coil current 2400 A
      << W("ondoreul"), N(12, -1), W("keV"), W("ro"), W("ollyeo") >>,  \* a quick pattern
      NotAString }

\* answers of the semantic-model service
EngineAnswers ==
    { LLMAnswer("service_error", {}, "", None, None, << >>),
      LLMAnswer("invalid_json", {}, "", None, None, << >>),
      LLMAnswer("json", AllKeys \ {"intent"}, "", None, None, << >>),
      LLMAnswer("json", AllKeys \ {"control_commands"}, "density_control",
                None, None, << >>),
      LLMAnswer("json", AllKeys, "density_control", Some(30), Some(50),
                << LLMOp(OpKeys \ {"unit"}, "KSTAR:GAS:FLOW", 5000) >>),
      LLMAnswer("json", AllKeys, "density_control", Some(30), Some(900),
                << LLMOp(OpKeys, "KSTAR:GAS:FLOW", 5000) >>) }

(***************************************************************************)
(* ExecutionStatus, ExecutionStep, CommandExecution                        *)
(***************************************************************************)
PENDING == "pending"
PARSING == "parsing"
EXECUTING == "executing"
MONITORING == "monitoring"
COMPLETED == "completed"
FAILED == "failed"
CANCELLED == "cancelled"

ExecutionStatus == {PENDING, PARSING, EXECUTING, MONITORING, COMPLETED, FAILED, CANCELLED}
\* the statuses cleanup_completed_executions purges
TerminalStatus == {COMPLETED, FAILED, CANCELLED}

\* the step ids _execute_command_internal adds, in the order it adds them
PipelineStages == <<"parsing", "safety_check", "execution", "monitoring">>

\* ExecutionStep(step_id, name, status=PENDING, start_time=now)
ExecutionStep(step_id) ==
    [step_id |-> step_id, status |-> PENDING, start_time |-> TRUE,
     end_time |-> FALSE, duration |-> FALSE, result |-> None,
     error_message |-> None]

\* CommandExecution(execution_id, original_command, status=PENDING)
CommandExecution(execution_id, command) ==
    [execution_id |-> execution_id,
     original_command |-> command,
     parsed_command |-> None,
     status |-> PENDING,
     start_time |-> FALSE,
     end_time |-> FALSE,
     steps |-> << >>,
     results |-> << >>,
     progress |-> 0,
     current_step |-> None,
     error_message |-> None,
     monitoring_data |-> << >>,
     status_callbacks |-> << >>]

\* index of the first step with this step_id (0: none): the for loop with
\* break of _complete_step and _fail_step
FirstStep(steps, step_id) ==
    LET hits == {i \in 1..Len(steps) : steps[i].step_id = step_id}
    IN IF hits = {} THEN 0 ELSE SetMin(hits)

\* A faulty variant of _add_step, which puts the new step in front of the
\* list; C29_StepsAreAppendedInPipelineOrder must reject it.
AddStepInFront(e, step_id) ==
    [e EXCEPT !.steps = << ExecutionStep(step_id) >> \o @,
              !.current_step = Some(step_id)]

\* _add_step, up to its notification
AddStep(e, step_id) ==
    [e EXCEPT !.steps = Append(@, ExecutionStep(step_id)),
              !.current_step = Some(step_id)]

\* A faulty variant of _complete_step, which does not close the step;
\* C37_OnlyTheLastStepIsOpenOrFailed must reject it.
CompleteStepWithoutEndTime(e, step_id, result) ==
    LET i == FirstStep(e.steps, step_id)
    IN IF i = 0 THEN e
       ELSE [e EXCEPT !.steps[i].status = COMPLETED,
                      !.steps[i].result = Some(result)]

\* _complete_step, up to its notification
CompleteStep(e, step_id, result) ==
    LET i == FirstStep(e.steps, step_id)
    IN IF i = 0 THEN e
       ELSE [e EXCEPT !.steps[i].status = COMPLETED,
                      !.steps[i].end_time = TRUE,
                      !.steps[i].result = Some(result),
                      !.steps[i].duration = e.steps[i].start_time]

\* A faulty variant of _fail_step, which drops the error message;
\* C8_FailedExecutionShape must reject it.
FailStepWithoutMessage(e, step_id, error_message) ==
    LET i == FirstStep(e.steps, step_id)
    IN IF i = 0 THEN e
       ELSE [e EXCEPT !.steps[i].status = FAILED,
                      !.steps[i].end_time = TRUE,
                      !.steps[i].duration = e.steps[i].start_time]

\* _fail_step, up to its notification
FailStep(e, step_id, error_message) ==
    LET i == FirstStep(e.steps, step_id)
    IN IF i = 0 THEN e
       ELSE [e EXCEPT !.steps[i].status = FAILED,
                      !.steps[i].end_time = TRUE,
                      !.steps[i].error_message = Some(error_message),
                      !.steps[i].duration = e.steps[i].start_time]

(***************************************************************************)
(* The device interface (EPICSController) and _perform_safety_checks       *)
(***************************************************************************)
\* the static limit table of the controller: lower and upper limit per PV
SafetyLimits ==
    [pv \in {"KSTAR:COIL:CURR", "KSTAR:HEATER:POW", "KSTAR:GAS:FLOW"} |->
        IF pv = "KSTAR:COIL:CURR" THEN <<0, 20000>>
        ELSE IF pv = "KSTAR:HEATER:POW" THEN <<0, 1000>>
        ELSE <<0, 10000>>]

\* EPICSController._check_safety_limits(pv_name, value)
CheckSafetyLimits(pv_name, value) ==
    IF pv_name \in DOMAIN SafetyLimits
    THEN SafetyLimits[pv_name][1] <= value /\ value <= SafetyLimits[pv_name][2]
    ELSE TRUE

SafetyCheckEntry(command) ==
    [type |-> "safety_limit", pv |-> command.pv_name, value |-> command.value,
     status |-> IF CheckSafetyLimits(command.pv_name, command.value)
                THEN "PASSED" ELSE "FAILED"]

\* Faulty variants of _perform_safety_checks: passed reflects the last
\* operation only (C18_SafetyChecksPerOperation must reject it); the warning
\* is already given at 60 seconds (C19_LongDurationWarning must reject it).
PerformSafetyChecksLastOnly(parsed_command) ==
    LET cmds == parsed_command.control_commands
    IN [passed |-> \/ cmds = << >>
                   \/ CheckSafetyLimits(cmds[Len(cmds)].pv_name,
                                        cmds[Len(cmds)].value),
        checks |-> [i \in 1..Len(cmds) |-> SafetyCheckEntry(cmds[i])],
        warnings |-> IF parsed_command.duration # None
                        /\ parsed_command.duration[1] # 0
                        /\ parsed_command.duration[1] > 600
                     THEN <<"Long-term control execution - caution required">>
                     ELSE << >>]

PerformSafetyChecksWarningAt60(parsed_command) ==
    LET cmds == parsed_command.control_commands
    IN [passed |-> \A i \in 1..Len(cmds) :
                       CheckSafetyLimits(cmds[i].pv_name, cmds[i].value),
        checks |-> [i \in 1..Len(cmds) |-> SafetyCheckEntry(cmds[i])],
        warnings |-> IF parsed_command.duration # None
                        /\ parsed_command.duration[1] # 0
                        /\ parsed_command.duration[1] >= 600
                     THEN <<"Long-term control execution - caution required">>
                     ELSE << >>]

PerformSafetyChecks(parsed_command) ==
    LET cmds == parsed_command.control_commands
    IN [passed |-> \A i \in 1..Len(cmds) :
                       CheckSafetyLimits(cmds[i].pv_name, cmds[i].value),
        checks |-> [i \in 1..Len(cmds) |-> SafetyCheckEntry(cmds[i])],
        warnings |-> IF parsed_command.duration # None
                        /\ parsed_command.duration[1] # 0
                        /\ parsed_command.duration[1] > 600
                     THEN <<"Long-term control execution - caution required">>
                     ELSE << >>]

\* EPICSController.execute_parsed_command: one ControlResult per operation,
\* in list order; the first nfail operations are the ones that did not succeed
ControlResults(parsed_command, nfail) ==
    [i \in 1..Len(parsed_command.control_commands) |->
        [pv_name |-> parsed_command.control_commands[i].pv_name,
         value |-> parsed_command.control_commands[i].value,
         success |-> i > nfail]]

(***************************************************************************)
(* _monitor_results                                                        *)
(***************************************************************************)
MonitoringTime == 100   \* "monitoring_time": 10.0 seconds
SampleInterval == 2     \* asyncio.sleep(0.2)
KeepRecent == 20        \* data_points[-20:]

\* data_points after k samples; a sample is identified by its number
DataPoints(k) == [i \in 1..k |-> i]

\* seq[-n:]
LastN(seq, n) ==
    IF Len(seq) <= n THEN seq ELSE SubSeq(seq, Len(seq) - n + 1, Len(seq))

\* sum(1 for r in results if r.success) / len(results), as <<num, den>>
SuccessRate(results) ==
    << Cardinality({i \in 1..Len(results) : results[i].success}), Len(results) >>

\* A faulty variant of the early return, which computes the success rate of
\* the empty result list (a division by its length, zero);
\* C36_MonitoringOfEmptyResults must reject it.
EmptyMonitoringResultDividing ==
    [monitoring_time |-> MonitoringTime, data_points |-> << >>,
     success_rate |-> SuccessRate(<< >>)]

\* the value returned on the early return "if not execution.results"
EmptyMonitoringResult ==
    [monitoring_time |-> MonitoringTime, data_points |-> << >>,
     success_rate |-> <<0, 1>>]

MonitoringResult(e, k) ==
    [monitoring_time |-> MonitoringTime, data_points |-> DataPoints(k),
     success_rate |-> SuccessRate(e.results)]

\* A faulty variant of the loop body, which stores every sample taken so far;
\* C33_RealtimeKeepsLastTwenty must reject it.
TakeSampleKeepingAll(e, k) ==
    [e EXCEPT !.monitoring_data = DataPoints(k)]

\* A faulty variant of the loop body, which stops storing samples once the
\* execution is cancelled; C34_CancelDoesNotStopSampling must reject it.
TakeSampleUnlessCancelled(e, k) ==
    IF e.status = CANCELLED THEN e
    ELSE [e EXCEPT !.monitoring_data = LastN(DataPoints(k), KeepRecent)]

\* one pass of the loop body, up to asyncio.sleep: the k-th sample is stored
TakeSample(e, k) ==
    [e EXCEPT !.monitoring_data = LastN(DataPoints(k), KeepRecent)]

\* After k samples at least k * 0.2 s have passed since the loop started (a
\* sleep may last longer than asked for): the loop condition
\* "time.time() - start_time < monitoring_time" can still be true only if
\* k * 0.2 < 10.
WindowMayBeOpen(k) == k * SampleInterval < MonitoringTime

(***************************************************************************)
(* execute_command: exception handler and finally block                    *)
(***************************************************************************)
\* A faulty variant of the exception handler, which records the message but
\* not the status; C6_ReturnedStatusIsTerminal must reject it.
ExceptHandlerKeepingStatus(e, error) == [e EXCEPT !.error_message = Some(error)]

\* A faulty variant of the exception handler, which marks the execution
\* CANCELLED; C28_StatusMovesForward must reject it.
ExceptHandlerMarkingCancelled(e, error) ==
    [e EXCEPT !.status = CANCELLED, !.error_message = Some(error)]

\* except Exception as e: status = FAILED; error_message = str(e)
ExceptHandler(e, error) ==
    [e EXCEPT !.status = FAILED, !.error_message = Some(error)]

\* A faulty variant of the finally block, which leaves progress alone;
\* C5_ReturnSetsEndTimeAndFullProgress must reject it.
FinallyKeepingProgress(e) == [e EXCEPT !.end_time = TRUE]

\* finally: end_time = now; if start_time: progress = 100.0
Finally(e) ==
    [e EXCEPT !.end_time = TRUE,
              !.progress = IF e.start_time THEN 100 ELSE @]

\* "Step 5: Completion" of _execute_command_internal
Completion(e) == [e EXCEPT !.status = COMPLETED, !.progress = 100]

\* A faulty variant of cancel_execution, which also resets progress;
\* C4_ProgressNeverDecreases must reject it.
CancelResettingProgress(e) ==
    [e EXCEPT !.status = CANCELLED, !.end_time = TRUE, !.progress = 0]

\* A faulty variant of cancel_execution, which also clears the error
\* message; C20_CancelExecutionEffect must reject it.
CancelClearingError(e) ==
    [e EXCEPT !.status = CANCELLED, !.end_time = TRUE, !.error_message = None]

\* the two assignments of cancel_execution
Cancel(e) == [e EXCEPT !.status = CANCELLED, !.end_time = TRUE]

\* Faulty variants of the except clauses: the safety check stage passes like
\* the monitoring stage (C7_FailedStageStopsPipeline must reject it); the
\* monitoring stage re-raises like the others (C9_MonitoringFailureIsSwallowed
\* must reject it).
OnStageErrorPassingSafetyCheck(step_id) ==
    IF step_id \in {"monitoring", "safety_check"} THEN "pass" ELSE "raise"
OnStageErrorAlwaysRaising(step_id) == "raise"

\* The except clause of a stage of _execute_command_internal, after
\* _fail_step: stages 1 to 3 re-raise, the monitoring stage passes.
OnStageError(step_id) == IF step_id = "monitoring" THEN "pass" ELSE "raise"

(***************************************************************************)
(* State of the engine                                                     *)
(***************************************************************************)
ExplicitIds == { <<"job", 1>> }
\* execution_id arguments: None (the id is then f"cmd_{int(time.time())}")
IdArguments == {None} \cup {Some(id) : id \in ExplicitIds}
\* the ids cancel_execution is called with
AllIds == ExplicitIds \cup { <<"cmd", 0>> }

Handles == 1..Len(executions)

Init ==
    /\ demo_mode \in BOOLEAN
    /\ now = 0
    /\ executions = << >>
    /\ active_executions = << >>
    /\ task = << >>
    /\ controller_calls = {}
    /\ calls = << >>
    /\ demo_values = [SP |-> Kev(80), RBV |-> Kev(80), COIL |-> 12000,
                      HEATER |-> 500]
    /\ continuous_monitoring = [temperature_history |-> << >>,
                                command_history |-> << >>,
                                last_update |-> None]
    /\ updates = 0

\* Where a coroutine stands.  It is suspended in the notification that ends
\* _add_step (pc = the step id), _complete_step (DonePc) or _fail_step
\* (FailedPc), in the controller call ("dispatching"), in asyncio.sleep
\* ("sleeping"), or execute_command has returned ("returned").
DonePc ==
    [parsing |-> "parsing_done", safety_check |-> "safety_check_done",
     execution |-> "execution_done", monitoring |-> "monitoring_done"]
FailedPc ==
    [parsing |-> "parsing_failed", safety_check |-> "safety_check_failed",
     execution |-> "execution_failed", monitoring |-> "monitoring_failed"]
Stages == DOMAIN FailedPc

\* the points from which the statements after the try block of `stage` run
ContinuePcs(stage) ==
    {DonePc[stage]} \cup (IF OnStageError(stage) = "pass" THEN {FailedPc[stage]} ELSE {})
\* the points from which the exception of a stage reaches execute_command
RaisePcs == {FailedPc[stage] : stage \in {st \in Stages : OnStageError(st) = "raise"}}

\* the status callbacks a client registers: one that returns and one that
\* raises whenever it is called
Callbacks == {"observer", "failing_observer"}
CallbackRaises(callback) == callback = "failing_observer"

\* one call "await callback(execution)" of _notify_status_change
Invocation(callback, e) ==
    [callback |-> callback, status |-> e.status, raised |-> CallbackRaises(callback)]

\* A faulty variant of _notify_status_change, without the try block: the
\* first callback that raises ends the loop; C27_CallbackErrorsAreIgnored
\* must reject it.
NotifyStatusChangeUntilError(e) ==
    LET cbs == e.status_callbacks
        bad == {i \in 1..Len(cbs) : CallbackRaises(cbs[i])}
        last == IF bad = {} THEN Len(cbs) ELSE SetMin(bad)
    IN [i \in 1..last |-> Invocation(cbs[i], e)]

\* _notify_status_change(execution): every callback of the execution is
\* called with the execution, in list order; an exception is logged and the
\* loop goes on.  The value is the sequence of the calls made.
NotifyStatusChange(e) ==
    [i \in 1..Len(e.status_callbacks) |-> Invocation(e.status_callbacks[i], e)]

\* a new coroutine: no exception in flight, no sample taken, no parser call
\* made, and no callback invoked by the notification of _add_step "parsing"
\* (a new execution has no callbacks)
NewTask == [pc |-> "parsing", error |-> "", samples |-> 0,
            strategies |-> << >>, llm_answer |-> None, notified |-> << >>]

\* the coroutine of object h is suspended at (or about to run from) point p
At(h, p) == h \in Handles /\ task[h].pc = p

\* object h continues to point p, where _add_step or _complete_step has
\* made the execution record e and notifies
Goto(h, p, e) ==
    /\ executions' = [executions EXCEPT ![h] = e]
    /\ task' = [task EXCEPT ![h].pc = p, ![h].strategies = << >>,
                            ![h].llm_answer = None,
                            ![h].notified = NotifyStatusChange(e)]

\* execute_command returns execution record e for object h: no notification
Return(h, e) ==
    /\ executions' = [executions EXCEPT ![h] = e]
    /\ task' = [task EXCEPT ![h].pc = "returned", ![h].strategies = << >>,
                            ![h].llm_answer = None]

\* _fail_step of `stage` was called with str(exception) = error, and notifies
GotoFailed(h, stage, e, error) ==
    /\ executions' = [executions EXCEPT ![h] = FailStep(e, stage, error)]
    /\ task' = [task EXCEPT ![h].pc = FailedPc[stage], ![h].error = error,
                            ![h].notified =
                                NotifyStatusChange(FailStep(e, stage, error))]

(***************************************************************************)
(* execute_command, up to the first notification of                        *)
(* _execute_command_internal (_add_step "parsing")                         *)
(***************************************************************************)
StartExecution(command, id_argument) ==
    /\ LET execution_id == IF id_argument = None THEN <<"cmd", now>>
                           ELSE id_argument[1]
           h == Len(executions) + 1
           execution == CommandExecution(execution_id, command)
           started == [execution EXCEPT !.start_time = TRUE, !.status = PARSING]
       IN /\ active_executions' =
                 [id \in DOMAIN active_executions \cup {execution_id} |->
                     IF id = execution_id THEN h ELSE active_executions[id]]
          /\ executions' = Append(executions, AddStep(started, "parsing"))
          /\ task' = Append(task, NewTask)
    /\ UNCHANGED <<ui, calls, demo_mode, now, controller_calls>>

ExecuteCommand(command, id_argument) ==
    /\ Len(executions) < MaxExecutions
    /\ StartExecution(command, id_argument)

\* Step 1: parse_command, then _complete_step or _fail_step.  Until the
\* coroutine moves on, its task records the strategies the call ran and the
\* answer of the semantic-model service, if it was asked.
ParsingStage(h, answer) ==
    /\ At(h, "parsing")
    /\ LET e == executions[h]
           r == ParseCommand(demo_mode, e.original_command, answer)
           asked == IF \E i \in 1..Len(r.strategies) : r.strategies[i] = "llm"
                    THEN Some(answer) ELSE None
       IN /\ executions' =
                [executions EXCEPT ![h] =
                    IF r.raised
                    THEN FailStep(e, "parsing", r.error)
                    ELSE CompleteStep([e EXCEPT !.parsed_command = r.value],
                                      "parsing", r.value[1])]
          /\ task' =
                [task EXCEPT ![h].pc = IF r.raised THEN FailedPc["parsing"]
                                       ELSE DonePc["parsing"],
                             ![h].error = r.error,
                             ![h].strategies = r.strategies,
                             ![h].llm_answer = asked,
                             ![h].notified = NotifyStatusChange(e)]
    /\ UNCHANGED <<ui, calls, demo_mode, now, active_executions, controller_calls>>

\* A faulty variant of the progress assignments, which stores the checkpoint
\* as a fraction of one; C31_ProgressCheckpoints must reject it.
ProgressAsFraction(e, h, stage, value) ==
    IF task[h].pc = DonePc[stage] THEN [e EXCEPT !.progress = value \div 100] ELSE e

\* the assignment of progress after _complete_step, inside the try block:
\* not reached from the except clause
Progress(e, h, stage, value) ==
    IF task[h].pc = DonePc[stage] THEN [e EXCEPT !.progress = value] ELSE e

\* progress = 20.0; Step 2: _add_step "safety_check"
AfterParsing(h) ==
    /\ h \in Handles
    /\ task[h].pc \in ContinuePcs("parsing")
    /\ Goto(h, "safety_check",
            AddStep(Progress(executions[h], h, "parsing", 20), "safety_check"))
    /\ UNCHANGED <<ui, calls, demo_mode, now, active_executions, controller_calls>>

\* _perform_safety_checks, then _complete_step or _fail_step.  fault: a call
\* of controller._check_safety_limits raises.
SafetyCheckStage(h, fault) ==
    /\ At(h, "safety_check")
    /\ LET e == executions[h]
           parsed_command == e.parsed_command[1]
       IN IF fault /\ Len(parsed_command.control_commands) > 0
          THEN GotoFailed(h, "safety_check", e, "ValidatorError")
          ELSE Goto(h, DonePc["safety_check"],
                    CompleteStep(e, "safety_check",
                                 PerformSafetyChecks(parsed_command)))
    /\ UNCHANGED <<ui, calls, demo_mode, now, active_executions, controller_calls>>

\* progress = 40.0; Step 3: status = EXECUTING; _add_step "execution"
AfterSafetyCheck(h) ==
    /\ h \in Handles
    /\ task[h].pc \in ContinuePcs("safety_check")
    /\ Goto(h, "execution",
            AddStep([Progress(executions[h], h, "safety_check", 40)
                         EXCEPT !.status = EXECUTING],
                    "execution"))
    /\ UNCHANGED <<ui, calls, demo_mode, now, active_executions, controller_calls>>

\* await self.controller.execute_parsed_command(...): the call is made
DispatchCall(h) ==
    /\ At(h, "execution")
    /\ controller_calls' = controller_calls \cup {h}
    /\ task' = [task EXCEPT ![h].pc = "dispatching"]
    /\ UNCHANGED <<ui, calls, demo_mode, now, executions, active_executions>>

\* the call returns the results (the first nfail of them unsuccessful) or
\* raises; then _complete_step or _fail_step
DispatchReturn(h, raises, nfail) ==
    /\ At(h, "dispatching")
    /\ LET e == executions[h]
           results == ControlResults(e.parsed_command[1], nfail)
       IN /\ nfail <= Len(e.parsed_command[1].control_commands)
          /\ IF raises
             THEN GotoFailed(h, "execution", e, "DeviceError")
             ELSE Goto(h, DonePc["execution"],
                       CompleteStep([e EXCEPT !.results = results],
                                    "execution", results))
    /\ UNCHANGED <<ui, calls, demo_mode, now, active_executions, controller_calls>>

\* progress = 70.0; Step 4: status = MONITORING; _add_step "monitoring"
AfterExecution(h) ==
    /\ h \in Handles
    /\ task[h].pc \in ContinuePcs("execution")
    /\ Goto(h, "monitoring",
            AddStep([Progress(executions[h], h, "execution", 70)
                         EXCEPT !.status = MONITORING],
                    "monitoring"))
    /\ UNCHANGED <<ui, calls, demo_mode, now, active_executions, controller_calls>>

\* A faulty variant of the loop, in which the window starts again with every
\* second sample, so that the loop condition never ends the loop;
\* C35_EveryExecutionReturns must reject it.
SampleRestartingWindow(h, k, fault) ==
    IF fault
    THEN GotoFailed(h, "monitoring", executions[h], "DeviceError")
    ELSE /\ executions' = [executions EXCEPT ![h] = TakeSample(@, (k + 1) % 2)]
         /\ task' = [task EXCEPT ![h].pc = "sleeping", ![h].samples = (k + 1) % 2]

\* one sample of the monitoring loop of object h, which has taken k samples:
\* controller.get_pv_value raises (fault), or the sample is stored and the
\* coroutine sleeps
Sample(h, k, fault) ==
    LET e == executions[h]
    IN IF fault
       THEN GotoFailed(h, "monitoring", e, "DeviceError")
       ELSE /\ executions' = [executions EXCEPT ![h] = TakeSample(e, k + 1)]
            /\ task' = [task EXCEPT ![h].pc = "sleeping", ![h].samples = k + 1]

\* _monitor_results is entered: the early return on empty results, or the
\* first pass of the loop
MonitorResults(h, fault) ==
    /\ At(h, "monitoring")
    /\ IF executions[h].results = << >>
       THEN Goto(h, DonePc["monitoring"],
                 CompleteStep(executions[h], "monitoring", EmptyMonitoringResult))
       ELSE Sample(h, 0, fault)
    /\ UNCHANGED <<ui, calls, demo_mode, now, active_executions, controller_calls>>

\* asyncio.sleep(0.2) returns and the loop condition is evaluated: the window
\* is still open and the next sample is taken, or it has elapsed and
\* _monitor_results returns, followed by _complete_step
MonitorLoop(h, open, fault) ==
    /\ At(h, "sleeping")
    /\ LET k == task[h].samples
       IN IF open
          THEN /\ WindowMayBeOpen(k)
               /\ Sample(h, k, fault)
          ELSE Goto(h, DonePc["monitoring"],
                    CompleteStep(executions[h], "monitoring",
                                 MonitoringResult(executions[h], k)))
    /\ UNCHANGED <<ui, calls, demo_mode, now, active_executions, controller_calls>>

\* the same, with the number of samples explored capped
MonitorWake(h, open, fault) ==
    /\ h \in Handles
    /\ open => task[h].samples < MaxSamples
    /\ MonitorLoop(h, open, fault)

\* after the monitoring step: progress = 90.0 when it succeeded (the except
\* branch passes); Step 5; return to execute_command and its finally block
CompleteExecution(h) ==
    /\ h \in Handles
    /\ task[h].pc \in ContinuePcs("monitoring")
    /\ Return(h, Finally(Completion(Progress(executions[h], h, "monitoring", 90))))
    /\ UNCHANGED <<ui, calls, demo_mode, now, active_executions, controller_calls>>

\* the raise after _fail_step of stage 1, 2 or 3: the except and finally
\* blocks of execute_command
RaiseToCaller(h) ==
    /\ h \in Handles
    /\ task[h].pc \in RaisePcs
    /\ Return(h, Finally(ExceptHandler(executions[h], task[h].error)))
    /\ UNCHANGED <<ui, calls, demo_mode, now, active_executions, controller_calls>>

(***************************************************************************)
(* cancel_execution, cleanup_completed_executions                          *)
(***************************************************************************)
\* the value cancel_execution returns
CancelReturn(execution_id) == execution_id \in DOMAIN active_executions

CancelExecution(execution_id) ==
    /\ IF CancelReturn(execution_id)
       THEN executions' = [executions EXCEPT ![active_executions[execution_id]] =
                               Cancel(@)]
       ELSE UNCHANGED executions
    /\ UNCHANGED <<ui, calls, demo_mode, now, active_executions, task, controller_calls>>

\* A faulty variant of the selection of cleanup_completed_executions, which
\* takes every id of the registry; C21_CleanupPurgesTerminalOnly must reject
\* it.
CompletedIdsWhateverStatus == DOMAIN active_executions

\* the ids cleanup_completed_executions collects in completed_ids
CompletedIds ==
    {id \in DOMAIN active_executions :
        executions[active_executions[id]].status \in TerminalStatus}

CleanupCompletedExecutions ==
    /\ active_executions' =
           [id \in DOMAIN active_executions \ CompletedIds |-> active_executions[id]]
    /\ UNCHANGED <<ui, calls, demo_mode, now, executions, task, controller_calls>>

Next ==
    \/ \E command \in EngineCommands, id_argument \in IdArguments :
           ExecuteCommand(command, id_argument)
    \/ \E h \in Handles, answer \in EngineAnswers : ParsingStage(h, answer)
    \/ \E h \in Handles : AfterParsing(h)
    \/ \E h \in Handles, fault \in BOOLEAN : SafetyCheckStage(h, fault)
    \/ \E h \in Handles : AfterSafetyCheck(h)
    \/ \E h \in Handles : DispatchCall(h)
    \/ \E h \in Handles, raises \in BOOLEAN, nfail \in 0..1 :
           DispatchReturn(h, raises, nfail)
    \/ \E h \in Handles : AfterExecution(h)
    \/ \E h \in Handles, fault \in BOOLEAN : MonitorResults(h, fault)
    \/ \E h \in Handles, open \in BOOLEAN, fault \in BOOLEAN :
           MonitorWake(h, open, fault)
    \/ \E h \in Handles : CompleteExecution(h)
    \/ \E h \in Handles : RaiseToCaller(h)
    \/ \E execution_id \in AllIds : CancelExecution(execution_id)
    \/ CleanupCompletedExecutions

Spec == Init /\ [][Next]_vars

(***************************************************************************)
(* Several executions in flight: the coroutines of execute_command run as  *)
(* independent tasks that share active_executions, and the clock that      *)
(* names the executions submitted without an id advances.                  *)
(***************************************************************************)
MaxConcurrent == 2
MaxClock == 1

\* the command submitted: a quick-pattern match with two operations
ConcurrentCommands ==
    { << W("ondoreul"), N(12, -1), W("keV"), W("ro"), W("ollyeo") >> }

\* get_execution_status(execution_id): the object the registry holds under
\* the id, or None
GetExecutionStatus(execution_id) ==
    IF execution_id \in DOMAIN active_executions
    THEN Some(active_executions[execution_id])
    ELSE None

\* int(time.time()) moves on to the next second
SecondPasses ==
    /\ now < MaxClock
    /\ now' = now + 1
    /\ UNCHANGED <<ui, calls, demo_mode, executions, active_executions, task,
                   controller_calls>>

ExecuteCommandConcurrently(command, id_argument) ==
    /\ Len(executions) < MaxConcurrent
    /\ StartExecution(command, id_argument)

ConcurrentNext ==
    \/ \E command \in ConcurrentCommands, id_argument \in IdArguments :
           ExecuteCommandConcurrently(command, id_argument)
    \/ SecondPasses
    \/ \E h \in Handles, answer \in EngineAnswers : ParsingStage(h, answer)
    \/ \E h \in Handles : AfterParsing(h)
    \/ \E h \in Handles : SafetyCheckStage(h, FALSE)
    \/ \E h \in Handles : AfterSafetyCheck(h)
    \/ \E h \in Handles : DispatchCall(h)
    \/ \E h \in Handles, raises \in BOOLEAN : DispatchReturn(h, raises, 0)
    \/ \E h \in Handles : AfterExecution(h)
    \/ \E h \in Handles : MonitorResults(h, FALSE)
    \/ \E h \in Handles, open \in BOOLEAN : MonitorWake(h, open, FALSE)
    \/ \E h \in Handles : CompleteExecution(h)
    \/ \E h \in Handles : RaiseToCaller(h)
    \/ CleanupCompletedExecutions

ConcurrentSpec == Init /\ [][ConcurrentNext]_vars

(***************************************************************************)
(* Status observers: a client that holds the execution object (through     *)
(* get_execution_status) appends callbacks to its status_callbacks while   *)
(* the pipeline is suspended.                                              *)
(***************************************************************************)
\* execution.status_callbacks.append(callback), each callback once
RegisterStatusCallback(execution_id, callback) ==
    /\ GetExecutionStatus(execution_id) # None
    /\ LET h == GetExecutionStatus(execution_id)[1]
           cbs == executions[h].status_callbacks
       IN /\ \A i \in 1..Len(cbs) : cbs[i] # callback
          /\ executions' = [executions EXCEPT ![h].status_callbacks =
                                Append(@, callback)]
    /\ UNCHANGED <<ui, calls, demo_mode, now, active_executions, task,
                   controller_calls>>

ObserverNext ==
    \/ \E command \in ConcurrentCommands : ExecuteCommand(command, None)
    \/ \E execution_id \in AllIds, callback \in Callbacks :
           RegisterStatusCallback(execution_id, callback)
    \/ \E h \in Handles, answer \in EngineAnswers : ParsingStage(h, answer)
    \/ \E h \in Handles : AfterParsing(h)
    \/ \E h \in Handles, fault \in BOOLEAN : SafetyCheckStage(h, fault)
    \/ \E h \in Handles : AfterSafetyCheck(h)
    \/ \E h \in Handles : DispatchCall(h)
    \/ \E h \in Handles, raises \in BOOLEAN : DispatchReturn(h, raises, 0)
    \/ \E h \in Handles : AfterExecution(h)
    \/ \E h \in Handles, fault \in BOOLEAN : MonitorResults(h, fault)
    \/ \E h \in Handles, open \in BOOLEAN, fault \in BOOLEAN :
           MonitorWake(h, open, fault)
    \/ \E h \in Handles : CompleteExecution(h)
    \/ \E h \in Handles : RaiseToCaller(h)

ObserverSpec == Init /\ [][ObserverNext]_vars

(***************************************************************************)
(* The whole monitoring window: one execution whose command has two        *)
(* operations is sampled until the loop condition of _monitor_results      *)
(* ends the loop, while clients call cancel_execution and                  *)
(* cleanup_completed_executions.                                           *)
(***************************************************************************)
MaxMonitored == 1

ExecuteMonitoredCommand(command) ==
    /\ Len(executions) < MaxMonitored
    /\ StartExecution(command, None)

MonitoringNext ==
    \/ \E command \in ConcurrentCommands : ExecuteMonitoredCommand(command)
    \/ \E h \in Handles, answer \in EngineAnswers : ParsingStage(h, answer)
    \/ \E h \in Handles : AfterParsing(h)
    \/ \E h \in Handles : SafetyCheckStage(h, FALSE)
    \/ \E h \in Handles : AfterSafetyCheck(h)
    \/ \E h \in Handles : DispatchCall(h)
    \/ \E h \in Handles : DispatchReturn(h, FALSE, 0)
    \/ \E h \in Handles : AfterExecution(h)
    \/ \E h \in Handles, fault \in BOOLEAN : MonitorResults(h, fault)
    \/ \E h \in Handles, open \in BOOLEAN, fault \in BOOLEAN :
           MonitorLoop(h, open, fault)
    \/ \E h \in Handles : CompleteExecution(h)
    \/ \E execution_id \in AllIds : CancelExecution(execution_id)
    \/ CleanupCompletedExecutions

MonitoringSpec == Init /\ [][MonitoringNext]_vars

\* a step of the coroutine of object h
PipelineStep(h) ==
    \/ \E answer \in EngineAnswers : ParsingStage(h, answer)
    \/ AfterParsing(h)
    \/ SafetyCheckStage(h, FALSE)
    \/ AfterSafetyCheck(h)
    \/ DispatchCall(h)
    \/ DispatchReturn(h, FALSE, 0)
    \/ AfterExecution(h)
    \/ \E fault \in BOOLEAN : MonitorResults(h, fault)
    \/ \E open \in BOOLEAN, fault \in BOOLEAN : MonitorLoop(h, open, fault)
    \/ CompleteExecution(h)

\* The event loop runs every task that is ready: the parser call, the device
\* call, the status callbacks and asyncio.sleep return, so a coroutine that
\* has not returned takes its next step.
FairMonitoringSpec ==
    /\ MonitoringSpec
    /\ \A h \in 1..MaxMonitored : WF_vars(PipelineStep(h))

(***************************************************************************)
(* Direct calls of the parser and of _perform_safety_checks                *)
(*                                                                         *)
(* A second state machine: a client calls _demo_parse_command,             *)
(* _quick_parse, parse_command and _perform_safety_checks directly, one    *)
(* call after the other.  calls holds the latest call and, when that is a  *)
(* call of one of the two rule-based strategies, an earlier call of one of *)
(* them: the one made just before, or the one held so far.                 *)
(***************************************************************************)
\* command texts the client submits (romanised: ondoreul = 온도를, cho = 초,
\* bun = 분, sigan = 시간, dongan = 동안, gan = 간)
ParserTexts ==
    { << >>,
      << W("status") >>,
      << W("Set"), W("temperature"), W("to"), N(12, -1), W("keV") >>,
      << W("temperature"), N(0, -1), W("keV") >>,
      << W("temperature"), N(17, -1), W("keV") >>,
      << N(5, -1), W("keV"), W("temperature"), N(12, -1) >>,
      << N(3, -1), W("status"), W("to"), N(20, -1) >>,
      << W("status"), N(12, 5) >>,
      << W("ondoreul"), N(12, -1), W("keV"), W("ro"), W("ollyeo") >>,
      << W("ondoreul"), N(8, -1), W("keV"), W("ro"), W("seoljeong") >>,
      << W("ondo"), N(20, -1), W("nopyeo") >>,
      << W("ondoreul"), N(1, -1), W("do"), W("ro"), W("natchwo") >>,
      << W("ondoreul"), N(7, 5), W("naeryeo") >>,
      << N(5, -1), W("cho"), W("dongan"),
         W("ondoreul"), N(12, -1), W("keV"), W("ro"), W("yuji") >>,
      << N(1, -1), W("bun"), W("gan"),
         W("ondoreul"), N(12, -1), W("keV"), W("ro"), W("yuji") >>,
      << N(3, -1), W("bun"), W("gan"),
         W("ondoreul"), N(14, -1), W("keV"), W("ro"), W("yuji") >>,
      << N(2, -1), W("sigan"), W("dongan"),
         W("ondoreul"), N(0, -1), W("jojeol") >>,
      << N(0, -1), W("cho"), W("dongan"),
         W("ondoreul"), N(13, -1), W("jeungga") >>,
      << N(5, -1), W("cho"),
         W("ondoreul"), N(12, -1), W("keV"), W("ro"), W("yuji") >>,
      << N(2, 5), W("cho"), W("dongan"),
         W("ondoreul"), N(12, -1), W("keV"), W("ro"), W("yuji") >> }

\* answers of the semantic-model service to the client's parse_command calls
ParserAnswers ==
    { LLMAnswer("service_error", {}, "", None, None, << >>),
      LLMAnswer("json", AllKeys, "density_control", Some(30), Some(601),
                << LLMOp(OpKeys, "KSTAR:GAS:FLOW", 5000),
                   LLMOp(OpKeys, "KSTAR:COIL:CURR", 25000),
                   LLMOp(OpKeys \ {"priority"}, "KSTAR:PUMP:SPEED", 10) >>),
      LLMAnswer("json", AllKeys \ {"target_value"}, "status_query", None,
                Some(600), << >>),
      LLMAnswer("json", AllKeys, "heating_control", Some(30), Some(601),
                << LLMOp(OpKeys \ {"description"}, "KSTAR:HEATER:POW", 500) >>) }

\* one call: the function, its text argument, the answer the semantic-model
\* service gave if it was asked, the ParsedCommand argument if there is one,
\* and how the call ended
Call(fn, text, asked, arg, outcome) ==
    [fn |-> fn, text |-> text, asked |-> asked, arg |-> arg, outcome |-> outcome]

RuleBased == {"_demo_parse_command", "_quick_parse"}

\* calls after call c was made; keep: the earlier call held so far stays
Remember(c, keep) ==
    IF calls # << >> /\ calls[Len(calls)].fn \in RuleBased /\ c.fn \in RuleBased
    THEN IF keep /\ Len(calls) = 2 THEN << calls[1], c >>
         ELSE << calls[Len(calls)], c >>
    ELSE << c >>

Latest == calls[Len(calls)]

DemoParseCall(text, keep) ==
    /\ calls' = Remember(Call("_demo_parse_command", text, None, None,
                              Returned(DemoParseCommand(text))), keep)
    /\ UNCHANGED <<ui, demo_mode, now, executions, active_executions, task,
                   controller_calls>>

\* _quick_parse returns None or a ParsedCommand
QuickParseCall(text, keep) ==
    /\ calls' = Remember(Call("_quick_parse", text, None, None,
                              Returned(QuickParse(text))), keep)
    /\ UNCHANGED <<ui, demo_mode, now, executions, active_executions, task,
                   controller_calls>>

ParseCommandCall(text, answer) ==
    /\ LET r == ParseCommand(demo_mode, text, answer)
           asked == IF \E i \in 1..Len(r.strategies) : r.strategies[i] = "llm"
                    THEN Some(answer) ELSE None
       IN calls' = Remember(Call("parse_command", text, asked, None, r), FALSE)
    /\ UNCHANGED <<ui, demo_mode, now, executions, active_executions, task,
                   controller_calls>>

\* the ParsedCommand call c returned, if it returned one
ParsedOf(c) ==
    IF c.outcome.raised THEN None
    ELSE IF c.fn = "_quick_parse" THEN c.outcome.value[1]
    ELSE IF c.fn \in {"_demo_parse_command", "parse_command"}
         THEN c.outcome.value
         ELSE None

LatestParsed == IF calls = << >> THEN None ELSE ParsedOf(Latest)

\* _perform_safety_checks on the ParsedCommand the latest call returned
PerformSafetyChecksCall ==
    /\ LatestParsed # None
    /\ calls' = Remember(Call("_perform_safety_checks",
                              LatestParsed[1].original_command, None,
                              LatestParsed,
                              Returned(PerformSafetyChecks(LatestParsed[1]))),
                         FALSE)
    /\ UNCHANGED <<ui, demo_mode, now, executions, active_executions, task,
                   controller_calls>>

ParserNext ==
    \/ \E text \in ParserTexts, keep \in BOOLEAN : DemoParseCall(text, keep)
    \/ \E text \in ParserTexts, keep \in BOOLEAN : QuickParseCall(text, keep)
    \/ \E text \in ParserTexts, answer \in ParserAnswers :
           ParseCommandCall(text, answer)
    \/ PerformSafetyChecksCall

ParserSpec == Init /\ [][ParserNext]_vars

(***************************************************************************)
(* The demo UI (DemoModeUI): the feedback simulator run by every pass of   *)
(* the websocket loop, and the POST /command handler that moves the        *)
(* setpoint.  Temperatures in units of 0.0001 keV, currents and powers in  *)
(* tenths.                                                                 *)
(***************************************************************************)
MaxUpdates == 203

\* "if abs(target_temp - current_temp) > 0.01" and the history limit
Epsilon == 100
HistoryCap == 200

Abs(x) == IF x < 0 THEN -x ELSE x

\* Faulty variants of the simulator step: half of the difference instead of
\* 5 % (C23_SimulatorTick must reject it); 105 % of the difference, which
\* passes the setpoint (C24_NoOvershootAndConvergence must reject it).
HalfOfDifference(diff) ==
    IF diff >= 0 THEN (diff + 1) \div 2 ELSE -((1 - diff) \div 2)
MoreThanDifference(diff) ==
    IF diff >= 0 THEN (diff * 105 + 50) \div 100
    ELSE -(((-diff) * 105 + 50) \div 100)

\* diff * 0.05, rounded to the nearest unit
FivePercent(diff) ==
    IF diff >= 0 THEN (diff * 5 + 50) \div 100
    ELSE -(((-diff) * 5 + 50) \div 100)

\* the readback after one update
NextReadback(target_temp, current_temp) ==
    IF Abs(target_temp - current_temp) > Epsilon
    THEN current_temp + FivePercent(target_temp - current_temp)
    ELSE current_temp

\* A faulty variant of the history limit, which keeps the oldest records;
\* C25_HistoryKeepsMostRecent must reject it.
CapHistoryKeepingOldest(history) ==
    IF Len(history) > HistoryCap THEN SubSeq(history, 1, HistoryCap)
    ELSE history

\* "if len(history) > 200: history = history[-200:]"
CapHistory(history) ==
    IF Len(history) > HistoryCap THEN LastN(history, HistoryCap) ELSE history

\* _update_demo_monitoring: one pass of the websocket loop
UpdateDemoMonitoring ==
    /\ updates < MaxUpdates
    /\ LET rbv == NextReadback(demo_values.SP, demo_values.RBV)
           temp_record == [timestamp |-> updates + 1,
                           sp |-> demo_values.SP,
                           rbv |-> rbv,
                           coil_current |-> demo_values.COIL,
                           heater_power |-> demo_values.HEATER]
       IN /\ demo_values' = [demo_values EXCEPT !.RBV = rbv]
          /\ continuous_monitoring' =
                 [continuous_monitoring EXCEPT
                      !.temperature_history = CapHistory(Append(@, temp_record)),
                      !.last_update = Some(updates + 1)]
    /\ updates' = updates + 1
    /\ UNCHANGED core

\* the commands posted to the demo UI: targets of 12, 5 and 8 keV, and a
\* command without a number (target 10.0)
UiCommands ==
    { << W("Set"), W("temperature"), W("to"), N(12, -1), W("keV") >>,
      << W("temperature"), N(5, -1), W("keV") >>,
      << W("ondoreul"), N(8, -1), W("keV"), W("ro"), W("yuji") >>,
      << W("status") >> }

\* the moments, in updates made so far, at which a command is posted
CommandMoments == {0, 120}

\* A faulty variant of the default of the simulation, which takes the
\* reference temperature 8.0 instead of 10.0; C40_SimulationTranslatesAsParser
\* must reject it.
SimulateTargetDefaultingToReference(command) ==
    LET m == DemoExtract(command)
    IN IF m = None \/ m = Some(0) THEN 80 ELSE m[1]

\* _simulate_command_execution: the target, by the same four patterns and
\* the same default as _demo_parse_command
SimulateTarget(command) ==
    LET m == DemoExtract(command)
    IN IF m = None \/ m = Some(0) THEN 100 ELSE m[1]

\* the parsed_command dictionary _simulate_command_execution builds
SimulatedParsedCommand(command) ==
    LET target_temp == SimulateTarget(command)
        temp_diff == target_temp - 80
        coil_current == 12000 + temp_diff * 100
        heater_power == 500 + temp_diff * 5
    IN [intent |-> "temperature_control",
        target_value |-> target_temp,
        duration |-> 50,
        control_commands |->
            << [pv_name |-> "KSTAR:COIL:CURR", value |-> coil_current,
                unit |-> "A",
                description |-> <<"coil current for", target_temp>>],
               [pv_name |-> "KSTAR:HEATER:POW", value |-> heater_power,
                unit |-> "%",
                description |-> <<"heater power for", target_temp>>] >>]

\* "if target_temp:" the setpoint and the two actuators are assigned
SetTarget(values, target_temp) ==
    IF target_temp # 0
    THEN [values EXCEPT !.SP = Kev(target_temp),
                        !.COIL = 12000 + (target_temp - 80) * 100,
                        !.HEATER = 500 + (target_temp - 80) * 5]
    ELSE values

\* the value of a PV in a dictionary of demo values
PvValue(values, pv_name) ==
    IF pv_name = "KSTAR:COIL:CURR" THEN values.COIL ELSE values.HEATER

\* one entry of results
SimulatedResult(cmd, old_values) ==
    [pv_name |-> cmd.pv_name, value |-> cmd.value, unit |-> cmd.unit,
     success |-> TRUE, old_value |-> PvValue(old_values, cmd.pv_name),
     new_value |-> cmd.value, execution_time |-> 1]

\* A faulty variant of _simulate_command_execution, which reads old_values
\* after the demo values were assigned; C39_CommandAndTickEffects must reject
\* it.
SimulateCommandExecutionReadingLate(command) ==
    LET parsed_command == SimulatedParsedCommand(command)
        values == SetTarget(demo_values, parsed_command.target_value)
    IN [parsed_command |-> parsed_command,
        results |-> [i \in 1..Len(parsed_command.control_commands) |->
                        SimulatedResult(parsed_command.control_commands[i],
                                        values)],
        demo_values |-> values]

\* _simulate_command_execution: the dictionary returned, and the demo values
\* it leaves
SimulateCommandExecution(command) ==
    LET parsed_command == SimulatedParsedCommand(command)
        old_values == demo_values
    IN [parsed_command |-> parsed_command,
        results |-> [i \in 1..Len(parsed_command.control_commands) |->
                        SimulatedResult(parsed_command.control_commands[i],
                                        old_values)],
        demo_values |-> SetTarget(demo_values, parsed_command.target_value)]

\* the POST /command handler: an empty command is refused (status 400);
\* _simulate_command_execution sets the setpoint and the two actuators at
\* once and leaves the readback to the simulator; the handler then records
\* the command
HandleCommand(command) ==
    /\ command # << >>
    /\ LET execution == SimulateCommandExecution(command)
       IN /\ demo_values' = execution.demo_values
          /\ continuous_monitoring' =
                 [continuous_monitoring EXCEPT !.command_history =
                      Append(@, [timestamp |-> updates,
                                 original_command |-> command,
                                 parsed_command |-> execution.parsed_command,
                                 results |-> execution.results])]
    /\ UNCHANGED <<core, updates>>

\* a request arrives at one of the moments explored, one per moment
PostCommand(command) ==
    /\ updates \in CommandMoments
    /\ \A i \in 1..Len(continuous_monitoring.command_history) :
           continuous_monitoring.command_history[i].timestamp # updates
    /\ HandleCommand(command)

UiNext ==
    \/ UpdateDemoMonitoring
    \/ \E command \in UiCommands : PostCommand(command)

UiSpec == Init /\ [][UiNext]_vars

(***************************************************************************)
(* The command simulation of the demo UI on the texts given to the parser: *)
(* a few commands are posted one after the other, without simulator ticks. *)
(***************************************************************************)
MaxCommands == 2

SimulationTexts == ParserTexts \cup UiCommands

PostNextCommand(command) ==
    /\ Len(continuous_monitoring.command_history) < MaxCommands
    /\ HandleCommand(command)

SimulationNext == \E command \in SimulationTexts : PostNextCommand(command)

SimulationSpec == Init /\ [][SimulationNext]_vars

(***************************************************************************)
(* Properties of the execution engine                                      *)
(***************************************************************************)
\* the step of e with this step id, if e has one
HasStep(e, step_id) == FirstStep(e.steps, step_id) # 0
StepOf(e, step_id) == e.steps[FirstStep(e.steps, step_id)]

\* C1: once the status of an execution is COMPLETED, FAILED or CANCELLED, no
\* later step changes it: not a cancel_execution call on the terminal
\* execution, and not the pipeline continuing after a cancellation.
C1_TerminalStatusIsFinal ==
    [][\A h \in Handles :
          executions[h].status \in TerminalStatus
              => executions'[h].status = executions[h].status]_vars

\* C2: once cancel_execution has set an execution to CANCELLED at a point
\* where its pipeline is suspended, no later step sets it to COMPLETED.  (An
\* execution has been cancelled in flight when its status is CANCELLED or
\* its end_time is set although execute_command has not returned: only
\* cancel_execution sets end_time before the return.)
C2_CancelledNeverCompleted ==
    [][\A h \in Handles :
          (\/ executions[h].status = CANCELLED
           \/ executions[h].end_time /\ task[h].pc # "returned")
              => executions'[h].status # COMPLETED]_vars

\* C3: when the safety check yields passed = false, the safety_check step is
\* FAILED, no execution step exists, the controller is never called with the
\* command, and the execution returns FAILED.
C3_FailedSafetyCheckBlocksExecution ==
    \A h \in Handles :
        LET e == executions[h]
        IN (/\ HasStep(e, "safety_check")
            /\ StepOf(e, "safety_check").result # None
            /\ ~StepOf(e, "safety_check").result[1].passed)
               => /\ StepOf(e, "safety_check").status = FAILED
                  /\ ~HasStep(e, "execution")
                  /\ h \notin controller_calls
                  /\ (task[h].pc = "returned" => e.status = FAILED)

\* C4: the progress of an execution never decreases.
C4_ProgressNeverDecreases ==
    [][\A h \in Handles : executions'[h].progress >= executions[h].progress]_vars

\* an execution that was cancelled while sampling has returned at 100
C4_Witness ==
    \E h \in Handles :
        /\ task[h].pc = "returned"
        /\ executions[h].status = CANCELLED
        /\ executions[h].monitoring_data # << >>
        /\ executions[h].progress = 100

\* C5: on every exit path of execute_command, end_time is set and progress
\* is exactly 100.
C5_ReturnSetsEndTimeAndFullProgress ==
    \A h \in Handles :
        task[h].pc = "returned"
            => executions[h].end_time /\ executions[h].progress = 100

\* the exit through the exception handler, from the first stage
C5_Witness ==
    \E h \in Handles :
        /\ task[h].pc = "returned"
        /\ executions[h].status = FAILED
        /\ Len(executions[h].steps) = 1

\* C6: the execution returned by execute_command has a terminal status.
C6_ReturnedStatusIsTerminal ==
    \A h \in Handles :
        task[h].pc = "returned" => executions[h].status \in TerminalStatus

\* both kinds of return: after Step 5, and through the exception handler
C6_Witness ==
    \E h \in Handles :
        /\ task[h].pc = "returned"
        /\ executions[h].status = FAILED
        /\ HasStep(executions[h], "execution")
        /\ h \in controller_calls

\* C7: when the parsing, safety_check or execution stage raises, its step is
\* the last step of the execution from then on (no later stage runs and no
\* step is appended), a parsing or safety_check failure leaves the
\* controller uncalled, and execute_command returns with status FAILED.
C7_FailedStageStopsPipeline ==
    [][\A h \in Handles :
          \A i \in 1..Len(executions'[h].steps) :
              LET e == executions'[h]
                  step == e.steps[i]
              IN (step.step_id \in {"parsing", "safety_check", "execution"}
                  /\ step.status = FAILED)
                     => /\ i = Len(e.steps)
                        /\ task'[h].pc \in {FailedPc[step.step_id], "returned"}
                        /\ (step.step_id # "execution" => h \notin controller_calls')
                        /\ (task'[h].pc = "returned" /\ task[h].pc # "returned"
                               => e.status = FAILED)]_vars

\* a safety check that raised, after the return
C7_Witness ==
    \E h \in Handles :
        /\ task[h].pc = "returned"
        /\ Len(executions[h].steps) = 2
        /\ executions[h].steps[2].status = FAILED
        /\ executions[h].status = FAILED

\* C8: an execution with status FAILED has an error message, its steps are
\* the pipeline's steps up to the failed stage, in order, and the last of
\* them is FAILED and carries an error message.
C8_FailedExecutionShape ==
    \A h \in Handles :
        LET e == executions[h]
            n == Len(e.steps)
        IN e.status = FAILED
              => /\ e.error_message # None
                 /\ n \in 1..3
                 /\ \A i \in 1..n : e.steps[i].step_id = PipelineStages[i]
                 /\ \A i \in 1..(n - 1) : e.steps[i].status = COMPLETED
                 /\ e.steps[n].status = FAILED
                 /\ e.steps[n].error_message # None

\* the device call raised: three steps
C8_Witness ==
    \E h \in Handles :
        /\ executions[h].status = FAILED
        /\ Len(executions[h].steps) = 3
        /\ executions[h].steps[3].error_message = Some("DeviceError")

\* C9: when monitoring raises, the monitoring step is FAILED with an error
\* message, the error message of the execution stays unset, and
\* execute_command returns with status COMPLETED.
C9_MonitoringFailureIsSwallowed ==
    [][\A h \in Handles :
          LET e == executions'[h]
          IN (HasStep(e, "monitoring") /\ StepOf(e, "monitoring").status = FAILED)
                => /\ StepOf(e, "monitoring").error_message # None
                   /\ e.error_message = None
                   /\ task'[h].pc \in {FailedPc["monitoring"], "returned"}
                   /\ (task'[h].pc = "returned" /\ task[h].pc # "returned"
                          => e.status = COMPLETED)]_vars

\* a sample raised after an earlier sample was stored, and the call returned
C9_Witness ==
    \E h \in Handles :
        /\ task[h].pc = "returned"
        /\ HasStep(executions[h], "monitoring")
        /\ StepOf(executions[h], "monitoring").status = FAILED
        /\ executions[h].monitoring_data # << >>
        /\ executions[h].status = COMPLETED

\* C10: parse_command does not raise for a text command, so the parsing
\* step of a text command is never FAILED; and outside demo mode, when the
\* semantic-model service was asked and failed (a service error, an answer
\* that is not JSON, no intent, no control_commands, or an operation entry
\* without one of its four required keys), the parsed command is exactly
\* the fallback command.
C10_ParseNeverRaisesAndFallsBack ==
    \A h \in Handles :
        LET e == executions[h]
            asked == task[h].llm_answer
            failure(a) ==
                \/ a.kind \in {"service_error", "invalid_json"}
                \/ ~({"intent", "control_commands"} \subseteq a.keys)
                \/ \E i \in 1..Len(a.control_commands) :
                       \E key \in {"pv_name", "value", "unit", "description"} :
                           key \notin a.control_commands[i].keys
        IN /\ e.original_command # NotAString
                => StepOf(e, "parsing").status # FAILED
           /\ (asked # None /\ failure(asked[1]))
                => /\ ~demo_mode
                   /\ StepOf(e, "parsing").status = COMPLETED
                   /\ e.parsed_command =
                          Some([original_command |-> e.original_command,
                                intent |-> "unknown",
                                target_value |-> None,
                                duration |-> None,
                                control_commands |-> << >>,
                                safety_checks |-> <<"manual_review">>,
                                estimated_time |-> 50])

\* the service answered with an operation entry that lacks its unit
C10_Witness ==
    \E h \in Handles :
        /\ task[h].llm_answer # None
        /\ task[h].llm_answer[1].kind = "json"
        /\ Len(task[h].llm_answer[1].control_commands) = 1
        /\ "unit" \notin task[h].llm_answer[1].control_commands[1].keys
        /\ executions[h].parsed_command # None
        /\ executions[h].parsed_command[1].intent = "unknown"

(***************************************************************************)
(* Properties of the parser and of the safety checks                       *)
(***************************************************************************)
\* C11: parse_command runs its strategies in a fixed order: in demo mode
\* only the demo strategy; otherwise the quick patterns first, the semantic
\* model exactly when the quick patterns decline, and never the demo
\* strategy.
C11_StrategyOrder ==
    (calls # << >> /\ Latest.fn = "parse_command")
        => LET ran == Latest.outcome.strategies
           IN IF demo_mode
              THEN ran = <<"demo">>
              ELSE /\ ran \in { <<"quick">>, <<"quick", "llm">> }
                   /\ (ran = <<"quick", "llm">>) <=> (QuickParse(Latest.text) = None)

\* the quick patterns declined a text and the semantic model was asked
C11_Witness ==
    /\ calls # << >>
    /\ ~demo_mode
    /\ Latest.fn = "parse_command"
    /\ Latest.outcome.strategies = <<"quick", "llm">>
    /\ Latest.asked # None

\* C12: in every ParsedCommand produced by the demo strategy, by the quick
\* patterns (whatever the target, the 8.0 reference included) or as the
\* fallback command, control_commands is empty only when intent is
\* 'unknown'.  (Only a command the semantic model itself composed is exempt.)
C12_EmptyOperationsOnlyWhenUnknown ==
    \A i \in 1..Len(calls) :
        LET c == calls[i]
            parsed == ParsedOf(c)
            composed == c.asked # None /\ ~LLMTryRaises(c.asked[1])
        IN (parsed # None /\ ~composed)
              => (parsed[1].control_commands = << >>
                     => parsed[1].intent = "unknown")

\* the calls answered by the demo strategy: direct ones, and parse_command
\* in demo mode
ByDemo(c) ==
    \/ c.fn = "_demo_parse_command"
    \/ c.fn = "parse_command" /\ c.outcome.strategies = <<"demo">>

\* C13: the demo strategy always returns exactly two operations, coil
\* current then heater power, with the unclamped values
\* 1200 + (target - 8) * 100 and 50 + (target - 8) * 5 for the target_value
\* it returns, intent 'temperature_control', duration 5.0 and safety_checks
\* ['demo_mode_safety_check']; target 12 gives 1600 and 70.
C13_DemoOperations ==
    \A i \in 1..Len(calls) :
        ByDemo(calls[i])
            => LET parsed == ParsedOf(calls[i])[1]
                   target == parsed.target_value[1]
                   ops == parsed.control_commands
               IN /\ Len(ops) = 2
                  /\ ops[1].pv_name = "KSTAR:COIL:CURR"
                  /\ ops[1].value = 12000 + (target - 80) * 100
                  /\ ops[2].pv_name = "KSTAR:HEATER:POW"
                  /\ ops[2].value = 500 + (target - 80) * 5
                  /\ (target = 120 => ops[1].value = 16000 /\ ops[2].value = 700)
                  /\ parsed.intent = "temperature_control"
                  /\ parsed.duration = Some(50)
                  /\ parsed.safety_checks = <<"demo_mode_safety_check">>

\* "Set temperature to 12 keV", and a target whose coil current exceeds 2000
C13_Witness ==
    /\ Len(calls) = 2
    /\ ByDemo(calls[1]) /\ ByDemo(calls[2])
    /\ calls[1].text = << W("Set"), W("temperature"), W("to"), N(12, -1), W("keV") >>
    /\ ParsedOf(calls[1])[1].target_value = Some(120)
    /\ ParsedOf(calls[2])[1].control_commands[1].value > 20000

\* C14: the demo strategy tries its patterns in list order and target_value
\* is the number captured by the first pattern that matches, whatever that
\* number is (0 included); target_value is the default 10.0, with coil
\* current 1400 and heater power 60, only when no pattern matches.
C14_DemoTargetIsFirstMatch ==
    \A i \in 1..Len(calls) :
        ByDemo(calls[i])
            => LET parsed == ParsedOf(calls[i])[1]
                   captured == DemoExtract(calls[i].text)
               IN IF captured = None
                  THEN /\ parsed.target_value = Some(100)
                       /\ parsed.control_commands[1].value = 14000
                       /\ parsed.control_commands[2].value = 600
                  ELSE parsed.target_value = captured

ByQuick(c) ==
    \/ c.fn = "_quick_parse" /\ c.outcome.value[1] # None
    \/ c.fn = "parse_command" /\ c.outcome.strategies = <<"quick">>

\* C16: for a quick-pattern match with target t, t > 8.0 gives coil current
\* min(1500 + (t - 8) * 100, 2000) and heater power min(70 + (t - 8) * 5, 100),
\* t < 8.0 gives coil current max(1000 - (8 - t) * 50, 500) and heater power
\* max(30 - (8 - t) * 3, 10); so every coil value produced lies in
\* [500, 2000] and every heater value in [10, 100].
C16_QuickOperationsAreClamped ==
    \A i \in 1..Len(calls) :
        ByQuick(calls[i])
            => LET parsed == ParsedOf(calls[i])[1]
                   t == parsed.target_value[1]
                   ops == parsed.control_commands
                   up == t - 80
                   down == 80 - t
               IN /\ t > 80 =>
                        /\ Len(ops) = 2
                        /\ ops[1].pv_name = "KSTAR:COIL:CURR"
                        /\ ops[1].value = IF 15000 + up * 100 < 20000
                                          THEN 15000 + up * 100 ELSE 20000
                        /\ ops[2].pv_name = "KSTAR:HEATER:POW"
                        /\ ops[2].value = IF 700 + up * 5 < 1000
                                          THEN 700 + up * 5 ELSE 1000
                  /\ t < 80 =>
                        /\ Len(ops) = 2
                        /\ ops[1].pv_name = "KSTAR:COIL:CURR"
                        /\ ops[1].value = IF 10000 - down * 50 > 5000
                                          THEN 10000 - down * 50 ELSE 5000
                        /\ ops[2].pv_name = "KSTAR:HEATER:POW"
                        /\ ops[2].value = IF 300 - down * 3 > 100
                                          THEN 300 - down * 3 ELSE 100
                  /\ \A n \in 1..Len(ops) :
                        /\ ops[n].pv_name = "KSTAR:COIL:CURR"
                              => ops[n].value \in 5000..20000
                        /\ ops[n].pv_name = "KSTAR:HEATER:POW"
                              => ops[n].value \in 100..1000

\* a target of 20 keV, clamped at 2000 A and 100 %, and a target of 1 keV,
\* whose heater power is clamped at 10 %
C16_Witness ==
    /\ Len(calls) = 2
    /\ ByQuick(calls[1]) /\ ByQuick(calls[2])
    /\ ParsedOf(calls[1])[1].target_value = Some(200)
    /\ ParsedOf(calls[1])[1].control_commands[1].value = 20000
    /\ ParsedOf(calls[1])[1].control_commands[2].value = 1000
    /\ ParsedOf(calls[2])[1].target_value = Some(10)
    /\ ParsedOf(calls[2])[1].control_commands[1].value = 6500
    /\ ParsedOf(calls[2])[1].control_commands[2].value = 100

C18_SafetyChecksPerOperation ==
    (calls # << >> /\ Latest.fn = "_perform_safety_checks")
        => LET ops == Latest.arg[1].control_commands
               result == Latest.outcome.value[1]
               fails(n) == ~CheckSafetyLimits(ops[n].pv_name, ops[n].value)
           IN /\ (~result.passed) <=> (\E n \in 1..Len(ops) : fails(n))
              /\ Len(result.checks) = Len(ops)
              /\ \A n \in 1..Len(ops) :
                    /\ result.checks[n].type = "safety_limit"
                    /\ result.checks[n].pv = ops[n].pv_name
                    /\ result.checks[n].value = ops[n].value
                    /\ result.checks[n].status =
                           IF fails(n) THEN "FAILED" ELSE "PASSED"
              /\ ops = << >> => (result.passed /\ result.checks = << >>)

\* three operations, of which only the second fails
C18_Witness ==
    /\ calls # << >>
    /\ Latest.fn = "_perform_safety_checks"
    /\ ~Latest.outcome.value[1].passed
    /\ Len(Latest.outcome.value[1].checks) = 3
    /\ Latest.outcome.value[1].checks[1].status = "PASSED"
    /\ Latest.outcome.value[1].checks[2].status = "FAILED"
    /\ Latest.outcome.value[1].checks[3].status = "PASSED"

\* C19: _perform_safety_checks gives a warning exactly when the duration of
\* the command is set and greater than 60 seconds (not at 60, not when it is
\* None), and the warning has no influence on passed, which depends on the
\* operations alone.
C19_LongDurationWarning ==
    (calls # << >> /\ Latest.fn = "_perform_safety_checks")
        => LET parsed == Latest.arg[1]
               result == Latest.outcome.value[1]
               long == parsed.duration # None /\ parsed.duration[1] > 600
           IN /\ (result.warnings # << >>) <=> long
              /\ Len(result.warnings) <= 1
              /\ result.passed =
                     (\A n \in 1..Len(parsed.control_commands) :
                          result.checks[n].status = "PASSED")

\* 180 seconds: a warning, and passed is true
C19_Witness ==
    /\ calls # << >>
    /\ Latest.fn = "_perform_safety_checks"
    /\ Latest.arg[1].duration = Some(1800)
    /\ Latest.outcome.value[1].warnings # << >>
    /\ Latest.outcome.value[1].passed
    /\ Len(Latest.outcome.value[1].checks) = 2

\* C20: cancel_execution(id) returns True, sets the status of the execution
\* to CANCELLED and sets its end_time exactly when id is in the registry;
\* for an id that is not tracked it returns False and leaves the registry
\* and every execution unchanged.  It never changes the progress, steps,
\* results or error_message of the execution, nor the registry.
C20_CancelExecutionEffect ==
    [][\A id \in AllIds :
          CancelExecution(id)
              => LET tracked == id \in DOMAIN active_executions
                 IN /\ CancelReturn(id) = tracked
                    /\ active_executions' = active_executions
                    /\ IF tracked
                       THEN LET h == active_executions[id]
                            IN /\ executions'[h].status = CANCELLED
                               /\ executions'[h].end_time
                               /\ executions'[h].progress = executions[h].progress
                               /\ executions'[h].steps = executions[h].steps
                               /\ executions'[h].results = executions[h].results
                               /\ executions'[h].error_message =
                                      executions[h].error_message
                               /\ \A g \in Handles \ {h} :
                                      executions'[g] = executions[g]
                       ELSE executions' = executions]_vars

\* an execution that failed in its third stage was cancelled afterwards and
\* has kept its error message, steps and progress
C20_Witness ==
    \E h \in Handles :
        /\ executions[h].status = CANCELLED
        /\ executions[h].end_time
        /\ executions[h].error_message = Some("DeviceError")
        /\ Len(executions[h].steps) = 3
        /\ executions[h].progress = 100

\* C21: cleanup_completed_executions removes from the registry exactly the
\* ids whose execution has status COMPLETED, FAILED or CANCELLED, keeps the
\* entry of every execution in another status, and changes no field of any
\* execution object, removed or kept.
C21_CleanupPurgesTerminalOnly ==
    [][CleanupCompletedExecutions
          => LET terminal(id) ==
                    executions[active_executions[id]].status
                        \in {COMPLETED, FAILED, CANCELLED}
             IN /\ DOMAIN active_executions' =
                       {id \in DOMAIN active_executions : ~terminal(id)}
                /\ \A id \in DOMAIN active_executions' :
                       active_executions'[id] = active_executions[id]
                /\ executions' = executions]_vars

\* a completed execution was purged: its object, returned to the caller of
\* execute_command, still has its status, its four steps and its results
C21_Witness ==
    \E h \in Handles :
        /\ task[h].pc = "returned"
        /\ executions[h].status = COMPLETED
        /\ executions[h].progress = 100
        /\ Len(executions[h].steps) = 4
        /\ executions[h].results # << >>
        /\ \A id \in DOMAIN active_executions : active_executions[id] # h

(***************************************************************************)
(* Properties of the registry under concurrent submissions                 *)
(***************************************************************************)
\* C22: execution ids are unique in the registry: each submitted execution
\* is stored under its own id, get_execution_status(id) keeps returning that
\* same execution until cleanup removes it, and no submission replaces the
\* registry entry of another execution.
C22_RegistryEntriesAreNeverReplaced ==
    [][/\ \A id \in DOMAIN active_executions :
              /\ id \in DOMAIN active_executions'
                    => GetExecutionStatus(id)' = GetExecutionStatus(id)
              /\ id \notin DOMAIN active_executions'
                    => CleanupCompletedExecutions
       /\ \A h \in 1..Len(executions') :
              h \notin Handles
                  => /\ executions'[h].execution_id \in DOMAIN active_executions'
                     /\ active_executions'[executions'[h].execution_id] = h
                     /\ executions'[h].execution_id \notin DOMAIN active_executions
      ]_vars

(***************************************************************************)
(* Properties of the feedback simulator of the demo UI                     *)
(* (0.01 keV is 100 units, 1 keV is 10000 units)                           *)
(***************************************************************************)
\* C23: on each simulator tick, if |setpoint - readback| > 0.01 the readback
\* becomes readback + (setpoint - readback) * 0.05 (here: to the nearest
\* unit), and otherwise it is unchanged; from readback 8.0 and setpoint 10.0
\* one tick gives 8.1.
C23_SimulatorTick ==
    [][UpdateDemoMonitoring
          => LET setpoint == demo_values.SP
                 readback == demo_values.RBV
                 diff == setpoint - readback
                 far == diff > 100 \/ diff < -100
                 moved == demo_values'.RBV - readback
             IN /\ far => /\ 20 * moved - diff <= 10
                          /\ diff - 20 * moved <= 10
                /\ ~far => moved = 0
                /\ (readback = 80000 /\ setpoint = 100000)
                       => demo_values'.RBV = 81000
                /\ demo_values'.SP = setpoint]_vars

\* the first tick after the setpoint went from 8.0 to 10.0: readback 8.1
C23_Witness ==
    /\ updates = 1
    /\ demo_values.SP = 100000
    /\ demo_values.RBV = 81000
    /\ continuous_monitoring.temperature_history[1].rbv = 81000

\* C24: with the setpoint held fixed, simulator ticks never overshoot: the
\* readback stays on the side of the setpoint it was on, the distance to the
\* setpoint never grows and shrinks as long as it is above 0.01, and once it
\* is at most 0.01 the readback no longer changes; a distance of at most
\* 4 keV is down to 0.01 at the latest after 120 ticks with the same
\* setpoint.
C24_NoOvershootAndConvergence ==
    [][UpdateDemoMonitoring
          => LET setpoint == demo_values.SP
                 before == setpoint - demo_values.RBV
                 after == setpoint - demo_values'.RBV
                 dist(x) == IF x < 0 THEN -x ELSE x
                 history == continuous_monitoring'.temperature_history
                 n == Len(history)
             IN /\ before >= 0 => after >= 0
                /\ before <= 0 => after <= 0
                /\ dist(after) <= dist(before)
                /\ dist(before) > 100 => dist(after) < dist(before)
                /\ dist(before) <= 100 => after = before
                /\ (/\ n >= 120
                    /\ \A i \in (n - 119)..n : history[i].sp = setpoint
                    /\ dist(setpoint - history[n - 119].rbv) <= 40000)
                       => dist(after) <= 100]_vars

\* the setpoint went from 8.0 to 12.0 before the first tick and stayed there:
\* after 120 ticks the readback is within 0.01 of it, from below, and the
\* last tick has not changed it
C24_Witness ==
    /\ updates = 120
    /\ demo_values.SP = 120000
    /\ continuous_monitoring.temperature_history[1].sp = 120000
    /\ continuous_monitoring.temperature_history[1].rbv = 82000
    /\ demo_values.RBV < 120000
    /\ 120000 - demo_values.RBV <= 100
    /\ continuous_monitoring.temperature_history[119].rbv = demo_values.RBV
    /\ continuous_monitoring.temperature_history[120].rbv = demo_values.RBV

\* C25: every simulator tick appends exactly one sample {sp, rbv,
\* coil_current, heater_power} to temperature_history; after any number of
\* ticks the length of the history is min(number of ticks, 200), and the
\* samples retained are the most recent ones, oldest first.
C25_HistoryKeepsMostRecent ==
    LET history == continuous_monitoring.temperature_history
        n == Len(history)
    IN /\ n = (IF updates < 200 THEN updates ELSE 200)
       /\ \A i \in 1..n :
             /\ history[i].timestamp = updates - n + i
             /\ {"sp", "rbv", "coil_current", "heater_power"}
                    \subseteq DOMAIN history[i]
       /\ n > 0 => history[n].rbv = demo_values.RBV

\* after 203 ticks the history holds the samples of ticks 4 to 203
C25_Witness ==
    /\ updates = 203
    /\ Len(continuous_monitoring.temperature_history) = 200
    /\ continuous_monitoring.temperature_history[1].timestamp = 4
    /\ continuous_monitoring.temperature_history[200].timestamp = 203

(***************************************************************************)
(* Properties of the status notifications                                  *)
(***************************************************************************)
\* C26: every change of the status of an execution made by the pipeline (to
\* PARSING, EXECUTING, MONITORING, COMPLETED or FAILED) is followed by a call
\* of every registered status callback with the execution in that status,
\* before the status changes again or execute_command returns.
C26_StatusChangesAreNotified ==
    [][\A h \in Handles :
          LET e == executions'[h]
              calls_made == task'[h].notified
          IN (/\ e.status # executions[h].status
              /\ e.status \in {PARSING, EXECUTING, MONITORING, COMPLETED, FAILED})
                 => \A i \in 1..Len(e.status_callbacks) :
                       \E j \in 1..Len(calls_made) :
                           /\ calls_made[j].callback = e.status_callbacks[i]
                           /\ calls_made[j].status = e.status]_vars

\* the pipeline has taken a step of object h that ends in a notification
NotifyingStep(h) ==
    /\ task'[h].pc # task[h].pc
    /\ task'[h].pc \notin {"dispatching", "sleeping", "returned"}

\* C27: a status callback that raises never aborts the pipeline: the other
\* callbacks of the notification are still called, in order, and the outcome
\* of the execution is decided by its stages alone: it is FAILED only with
\* the error of a failed parsing, safety_check or execution step, and
\* otherwise it returns COMPLETED with its four steps and progress 100.
C27_CallbackErrorsAreIgnored ==
    [][\A h \in Handles :
          LET e == executions'[h]
              calls_made == task'[h].notified
              failed == {i \in 1..Len(e.steps) :
                            /\ e.steps[i].status = FAILED
                            /\ e.steps[i].step_id # "monitoring"}
          IN /\ NotifyingStep(h)
                  => /\ Len(calls_made) = Len(e.status_callbacks)
                     /\ \A i \in 1..Len(calls_made) :
                           /\ calls_made[i].callback = e.status_callbacks[i]
                           /\ calls_made[i].status = e.status
             /\ e.status = FAILED
                  => \E i \in failed :
                        e.error_message = e.steps[i].error_message
             /\ (task'[h].pc = "returned" /\ failed = {})
                  => /\ e.status = COMPLETED
                     /\ e.progress = 100
                     /\ Len(e.steps) = 4
                     /\ Len(e.results) = Len(e.parsed_command[1].control_commands)
      ]_vars

\* the callback that raises was registered first: the last notification of an
\* execution that has returned COMPLETED called it and then the other one
C27_Witness ==
    \E h \in Handles :
        /\ task[h].pc = "returned"
        /\ executions[h].status = COMPLETED
        /\ Len(executions[h].steps) = 4
        /\ executions[h].status_callbacks = <<"failing_observer", "observer">>
        /\ Len(task[h].notified) = 2
        /\ task[h].notified[1].callback = "failing_observer"
        /\ task[h].notified[1].raised
        /\ task[h].notified[2].callback = "observer"
        /\ task[h].notified[2].status = MONITORING

(***************************************************************************)
(* Properties of the pipeline when cancel_execution is not called          *)
(***************************************************************************)
\* C28: in the absence of cancel_execution, the status of an execution only
\* moves forward along PENDING -> PARSING -> EXECUTING -> MONITORING ->
\* COMPLETED, one state at a time, and FAILED is entered only from PARSING
\* or EXECUTING; the status is PARSING throughout the parsing and
\* safety_check stages, EXECUTING throughout the dispatch and MONITORING
\* throughout the monitoring.
C28_StatusMovesForward ==
    [][\A h \in 1..Len(executions') :
          LET e == executions'[h]
              old == IF h \in Handles THEN executions[h].status
                     ELSE CommandExecution(e.execution_id,
                                           e.original_command).status
          IN /\ e.status # old
                  => <<old, e.status>> \in
                        { <<PENDING, PARSING>>, <<PARSING, EXECUTING>>,
                          <<EXECUTING, MONITORING>>, <<MONITORING, COMPLETED>>,
                          <<PARSING, FAILED>>, <<EXECUTING, FAILED>> }
             /\ task'[h].pc # "returned"
                  => /\ e.current_step \in {Some("parsing"), Some("safety_check")}
                           => e.status = PARSING
                     /\ e.current_step = Some("execution") => e.status = EXECUTING
                     /\ e.current_step = Some("monitoring") => e.status = MONITORING
             /\ task'[h].pc = "returned" => e.status \in {COMPLETED, FAILED}
      ]_vars

\* the success path was taken to its end, and every stage had completed
C28_Witness ==
    \E h \in Handles :
        /\ task[h].pc = "returned"
        /\ executions[h].status = COMPLETED
        /\ Len(executions[h].steps) = 4
        /\ \A i \in 1..4 : executions[h].steps[i].status = COMPLETED
        /\ executions[h].monitoring_data # << >>

(***************************************************************************)
(* Properties of the steps of an execution                                 *)
(***************************************************************************)
\* C29: in every reachable state the steps of an execution have at most one
\* step per step_id and their step_ids are a prefix of the pipeline order
\* parsing, safety_check, execution, monitoring; steps are only ever
\* appended: no operation, cancel_execution and cleanup included, removes,
\* reorders or duplicates a step.  (Stated of every step that creates an
\* execution or changes the steps of one.)
C29_StepsAreAppendedInPipelineOrder ==
    [][\A h \in 1..Len(executions') :
          LET order == <<"parsing", "safety_check", "execution", "monitoring">>
              after == executions'[h].steps
              changed == IF h \in Handles THEN after # executions[h].steps
                         ELSE TRUE
          IN changed
                => /\ Len(after) <= 4
                   /\ \A i \in 1..Len(after) : after[i].step_id = order[i]
                   /\ \A i, j \in 1..Len(after) :
                         after[i].step_id = after[j].step_id => i = j
                   /\ h \in Handles
                        => /\ Len(executions[h].steps) <= Len(after)
                           /\ Len(after) <= Len(executions[h].steps) + 1
                           /\ \A i \in 1..Len(executions[h].steps) :
                                 after[i].step_id =
                                     executions[h].steps[i].step_id
      ]_vars

\* an execution was cancelled and purged while in flight; its pipeline went
\* on and has appended the fourth step
C29_Witness ==
    \E h \in Handles :
        /\ task[h].pc = "monitoring"
        /\ executions[h].end_time
        /\ \A id \in DOMAIN active_executions : active_executions[id] # h
        /\ Len(executions[h].steps) = 4
        /\ executions[h].steps[4].step_id = "monitoring"
        /\ executions[h].steps[4].status = PENDING

\* C30: each of the five pipeline stages (parsing, safety_check, execution,
\* monitoring, completion) is recorded as one ExecutionStep: an execution
\* that ends COMPLETED has exactly five steps, one per stage in that order,
\* each with start_time, end_time and duration set.
C30_CompletedHasFiveSteps ==
    \A h \in Handles :
        (task[h].pc = "returned" /\ executions[h].status = COMPLETED)
            => LET steps == executions[h].steps
                   stages == <<"parsing", "safety_check", "execution",
                               "monitoring", "completion">>
               IN /\ Len(steps) = 5
                  /\ \A i \in 1..Len(steps) :
                        /\ steps[i].step_id = stages[i]
                        /\ steps[i].start_time
                        /\ steps[i].end_time
                        /\ steps[i].duration

(***************************************************************************)
(* Properties of progress                                                  *)
(***************************************************************************)
\* C31: progress is set to 20 exactly when the parsing stage succeeds, to 40
\* when the safety_check stage succeeds and to 70 when the execution stage
\* succeeds: until execute_command returns, progress is the checkpoint of the
\* stages before the latest one (0, 20, 40, 70 when the latest step is the
\* first, second, third, fourth), whether that step is pending, completed or
\* failed, so a stage starts with the checkpoint of the last stage that
\* succeeded; and progress is always one of 0, 20, 40, 70, 90, 100.
C31_ProgressCheckpoints ==
    \A h \in Handles :
        LET e == executions[h]
            checkpoint == <<0, 20, 40, 70>>
        IN /\ e.progress \in {0, 20, 40, 70, 90, 100}
           /\ task[h].pc # "returned"
                => /\ Len(e.steps) \in 1..4
                   /\ e.progress = checkpoint[Len(e.steps)]

\* the execution stage has failed after two stages that succeeded: progress
\* is that of the safety_check stage
C31_Witness ==
    \E h \in Handles :
        /\ task[h].pc = "execution_failed"
        /\ executions[h].progress = 40
        /\ Len(executions[h].steps) = 3
        /\ executions[h].steps[2].status = COMPLETED
        /\ executions[h].steps[3].status = FAILED

\* C32: when the monitoring stage ends, whether it succeeded or raised,
\* progress is advanced to 90 before the completion stage sets status
\* COMPLETED and progress 100: the record that "Step 5: Completion" starts
\* from has progress 90.
C32_ProgressIs90BeforeCompletion ==
    [][\A h \in Handles :
          (/\ task[h].pc \in ContinuePcs("monitoring")
           /\ task'[h].pc = "returned"
           /\ executions'[h].status = COMPLETED)
              => Progress(executions[h], h, "monitoring", 90).progress = 90
      ]_vars

(***************************************************************************)
(* Properties of the monitoring stage                                      *)
(***************************************************************************)
\* C33: during monitoring with non-empty results, after the k-th sample
\* monitoring_data["realtime"] holds exactly the last min(k, 20) samples in
\* sampling order, so never more than 20; one sample is taken per 200 ms step
\* of the 10-second window, so at most 50 samples are taken; the data_points
\* of the step result hold all k samples.
C33_RealtimeKeepsLastTwenty ==
    \A h \in Handles :
        LET e == executions[h]
            k == task[h].samples
            kept == Min(k, 20)
        IN /\ k <= 50
           /\ Len(e.monitoring_data) <= 20
           /\ k > 0
                => /\ e.results # << >>
                   /\ Len(e.monitoring_data) = kept
                   /\ \A i \in 1..kept : e.monitoring_data[i] = k - kept + i
           /\ (task[h].pc \in {"monitoring_done", "returned"}
                 /\ e.steps[4].status = COMPLETED /\ e.results # << >>)
                => /\ Len(e.steps[4].result[1].data_points) = k
                   /\ \A i \in 1..k : e.steps[4].result[1].data_points[i] = i

\* the window was sampled to its end: 50 samples taken, the samples 31 to 50
\* kept, and all 50 returned in data_points
C33_Witness ==
    \E h \in Handles :
        /\ task[h].pc = "monitoring_done"
        /\ task[h].samples = 50
        /\ Len(executions[h].monitoring_data) = 20
        /\ executions[h].monitoring_data[1] = 31
        /\ executions[h].monitoring_data[20] = 50
        /\ Len(executions[h].steps[4].result[1].data_points) = 50

\* C34: cancel_execution issued while an execution is in its monitoring
\* stage does not interrupt the sampling loop: while the window may be open
\* the next sample can still be taken, each further sample is written to
\* monitoring_data, and the coroutine leaves the loop only through the loop
\* condition (with all samples taken in the result) or through an exception
\* of the sampling itself.
C34_CancelDoesNotStopSampling ==
    [][\A h \in Handles :
          LET e == executions[h]
              k == task[h].samples
              kept == Min(k + 1, 20)
          IN (e.status = CANCELLED /\ task[h].pc = "sleeping")
                => /\ WindowMayBeOpen(k) => ENABLED MonitorLoop(h, TRUE, FALSE)
                   /\ task'[h].pc \in {"sleeping", "monitoring_done",
                                       "monitoring_failed"}
                   /\ task'[h].samples \in {k, k + 1}
                   /\ task'[h].samples = k + 1
                        => /\ task'[h].pc = "sleeping"
                           /\ Len(executions'[h].monitoring_data) = kept
                           /\ executions'[h].monitoring_data[kept] = k + 1
                   /\ task'[h].pc = "monitoring_done"
                        => Len(executions'[h].steps[4].result[1].data_points) = k
      ]_vars

\* a cancelled execution, already purged from the registry, is still being
\* sampled: its 50th sample has been stored
C34_Witness ==
    \E h \in Handles :
        /\ task[h].pc = "sleeping"
        /\ executions[h].status = CANCELLED
        /\ \A id \in DOMAIN active_executions : active_executions[id] # h
        /\ task[h].samples = 50
        /\ executions[h].monitoring_data[20] = 50

C36_MonitoringOfEmptyResults ==
    \A h \in Handles :
        LET e == executions[h]
            past_execution == Len(e.steps) >= 3 /\ e.steps[3].status = COMPLETED
            monitored == Len(e.steps) = 4 /\ e.steps[4].status = COMPLETED
        IN /\ (past_execution /\ e.results = << >>)
                => /\ task[h].samples = 0
                   /\ e.monitoring_data = << >>
                   /\ task[h].pc \notin {"sleeping", "monitoring_failed"}
                   /\ task[h].pc \in {"monitoring_done", "returned"}
                        => /\ monitored
                           /\ e.steps[4].result[1].data_points = << >>
                           /\ e.steps[4].result[1].success_rate = <<0, 1>>
                   /\ task[h].pc = "returned" => e.status \in {COMPLETED, CANCELLED}
           /\ (monitored /\ e.results # << >>)
                => LET rate == e.steps[4].result[1].success_rate
                   IN /\ rate[2] = Len(e.results)
                      /\ rate[1] = Cardinality({i \in 1..Len(e.results) :
                                                   e.results[i].success})

\* the fallback command, which has no operations, was executed and
\* monitored: four completed steps, an empty result list and no sample
C36_Witness ==
    \E h \in Handles :
        /\ task[h].pc = "returned"
        /\ executions[h].status = COMPLETED
        /\ executions[h].parsed_command[1].intent = "unknown"
        /\ executions[h].results = << >>
        /\ Len(executions[h].steps) = 4
        /\ executions[h].steps[4].status = COMPLETED
        /\ executions[h].steps[4].result[1].success_rate = <<0, 1>>
        /\ executions[h].monitoring_data = << >>

\* C37: in every reachable state of an execution at most one step has status
\* FAILED and it is the last step; every step before the last has status
\* COMPLETED with end_time and duration set; and when execute_command has
\* returned no step has status PENDING.
C37_OnlyTheLastStepIsOpenOrFailed ==
    \A h \in Handles :
        LET steps == executions[h].steps
        IN /\ \A i \in 1..Len(steps) :
                 /\ steps[i].status \in {PENDING, COMPLETED, FAILED}
                 /\ steps[i].status = FAILED => i = Len(steps)
                 /\ i < Len(steps)
                      => /\ steps[i].status = COMPLETED
                         /\ steps[i].end_time
                         /\ steps[i].duration
           /\ task[h].pc = "returned"
                => \A i \in 1..Len(steps) : steps[i].status # PENDING

\* the monitoring stage failed and execute_command returned: three completed
\* steps and a failed fourth one
C37_Witness ==
    \E h \in Handles :
        /\ task[h].pc = "returned"
        /\ Len(executions[h].steps) = 4
        /\ \A i \in 1..3 : executions[h].steps[i].status = COMPLETED
        /\ executions[h].steps[4].status = FAILED
        /\ executions[h].steps[4].end_time

(***************************************************************************)
(* Properties of the registry while an execution is in flight              *)
(***************************************************************************)
\* C38: cleanup_completed_executions never removes from the registry an
\* execution whose pipeline has not yet returned from execute_command, under
\* any interleaving of cancel_execution and cleanup with the pipeline:
\* get_execution_status(id) never turns to None for an execution that is
\* still running.
C38_CleanupSparesRunningExecutions ==
    [][\A h \in Handles :
          (/\ task[h].pc # "returned"
           /\ GetExecutionStatus(executions[h].execution_id) = Some(h))
              => /\ executions[h].execution_id \in DOMAIN active_executions'
                 /\ active_executions'[executions[h].execution_id] = h
      ]_vars

(***************************************************************************)
(* Properties of the command simulation of the demo UI                     *)
(***************************************************************************)
\* C39: a simulated command with target t sets the setpoint to t and the two
\* actuator values to 1200 + (t-8)*100 and 50 + (t-8)*5 at once and leaves
\* the readback unchanged, and each returned result carries as old_value the
\* actuator value held before the command and as new_value the commanded
\* value; a simulator tick changes only the readback, the history and
\* last_update, never the setpoint or the actuator values.
C39_CommandAndTickEffects ==
    [][LET before == continuous_monitoring.command_history
           after == continuous_monitoring'.command_history
       IN /\ after # before
               => LET record == after[Len(after)]
                      t == record.parsed_command.target_value
                      results == record.results
                  IN /\ demo_values'.SP = Kev(t)
                     /\ demo_values'.COIL = 12000 + (t - 80) * 100
                     /\ demo_values'.HEATER = 500 + (t - 80) * 5
                     /\ demo_values'.RBV = demo_values.RBV
                     /\ Len(results) = 2
                     /\ results[1].pv_name = "KSTAR:COIL:CURR"
                     /\ results[1].old_value = demo_values.COIL
                     /\ results[1].new_value = demo_values'.COIL
                     /\ results[2].pv_name = "KSTAR:HEATER:POW"
                     /\ results[2].old_value = demo_values.HEATER
                     /\ results[2].new_value = demo_values'.HEATER
                     /\ continuous_monitoring'.temperature_history =
                            continuous_monitoring.temperature_history
                     /\ continuous_monitoring'.last_update =
                            continuous_monitoring.last_update
          /\ updates' # updates
               => /\ demo_values'.SP = demo_values.SP
                  /\ demo_values'.COIL = demo_values.COIL
                  /\ demo_values'.HEATER = demo_values.HEATER
                  /\ after = before
                  /\ continuous_monitoring'.last_update # None
      ]_vars

\* a command for 12 keV was followed, 120 ticks later, by one for 5 keV: the
\* results of the second carry the values the first had set, and the
\* readback is still near 12 keV
C39_Witness ==
    LET history == continuous_monitoring.command_history
    IN /\ Len(history) = 2
       /\ updates = 120
       /\ history[2].parsed_command.target_value = 50
       /\ history[2].results[1].old_value = 16000
       /\ history[2].results[1].new_value = 9000
       /\ history[2].results[2].old_value = 700
       /\ history[2].results[2].new_value = 350
       /\ demo_values.SP = 50000
       /\ demo_values.COIL = 9000
       /\ demo_values.RBV > 119000

\* C40: the command simulation of the UI and the demo strategy of the parser
\* are two copies of the same translation: for every text,
\* _simulate_command_execution derives the same intent, target_value,
\* duration and the same two operations (PV names, values, units,
\* descriptions, in the same order) as _demo_parse_command.
C40_SimulationTranslatesAsParser ==
    \A i \in 1..Len(continuous_monitoring.command_history) :
        LET record == continuous_monitoring.command_history[i]
            simulated == record.parsed_command
            parsed == DemoParseCommand(record.original_command)
        IN /\ simulated.intent = parsed.intent
           /\ Some(simulated.target_value) = parsed.target_value
           /\ Some(simulated.duration) = parsed.duration
           /\ Len(simulated.control_commands) = Len(parsed.control_commands)
           /\ \A j \in 1..Len(simulated.control_commands) :
                 LET s == simulated.control_commands[j]
                     p == parsed.control_commands[j]
                 IN /\ s.pv_name = p.pv_name
                    /\ s.value = p.value
                    /\ s.unit = p.unit
                    /\ s.description = p.description
                    /\ record.results[j].pv_name = p.pv_name
                    /\ record.results[j].new_value = p.value

\* two commands were simulated: one whose target is found by the third
\* pattern (the number after "to"), and one whose number is 0, which takes
\* the default of 10.0
C40_Witness ==
    LET history == continuous_monitoring.command_history
    IN /\ Len(history) = 2
       /\ history[1].original_command =
              << N(3, -1), W("status"), W("to"), N(20, -1) >>
       /\ history[1].parsed_command.target_value = 200
       /\ history[1].parsed_command.control_commands[1].value = 24000
       /\ history[2].original_command =
              << W("temperature"), N(0, -1), W("keV") >>
       /\ history[2].parsed_command.target_value = 100
       /\ history[2].results[1].old_value = 24000

=============================================================================
